---- MODULE Spec2Model ----
(***************************************************************************)
(* Device control runtime of dexhand_manager: DexHandController            *)
(* (models/dexhand_controller.py), PiperArm (models/arm_control.py) and    *)
(* LinearInterpModel (models/lerp_model.py), driven by worker threads of   *)
(* the gRPC thread pool (services/__init__.py), and the registry and the   *)
(* streaming calls of services/dexhand_service.py.                         *)
(*                                                                         *)
(* Time is counted in ticks of 0.5 s (one time.sleep(0.5) of the           *)
(* handshake).  Angles are integers in units of 1/AngleDen, points of the  *)
(* control space are integers in units of 1/PointDen, so that all          *)
(* arithmetic is exact.                                                    *)
(***************************************************************************)
EXTENDS Integers, Sequences, FiniteSets, TLC

VARIABLES
    arm,         \* [Controllers -> PiperArm fields piper/_is_connected/_is_enabled]
    model_type,  \* [Controllers -> DexHandController._model_type]
    lerp,        \* [Controllers -> DexHandController._lerp (NoLerp: attribute unset)]
    lock,        \* [Locks -> RLock state: owner thread and recursion count]
    pc,          \* [Workers -> position of the worker thread in its call]
    call,        \* [Workers -> the operation being executed and its arguments]
    hs,          \* [Workers -> locals of the enable/disable polling loop]
    out,         \* [Workers -> outcome of the call: return value or exception]
    sent,        \* [Workers -> commands the call has issued to the arm driver]
    dex_hands,   \* dex_hands_store: the ids of the dict, in insertion order
    created,     \* history: the ids DexHandController.__init__ has generated, in order
    deleted,     \* history: the ids DeleteDexHand has removed
    session,     \* the streaming call in progress: handler position, locals, history
    device       \* [Controllers -> declared arm_type / hand_type and the handles _arm / _hand]

\* the state of the services: the registry and the streaming session
svc == <<dex_hands, created, deleted, session, device>>

vars ==
    <<arm, model_type, lerp, lock, pc, call, hs, out, sent,
      dex_hands, created, deleted, session, device>>

---------------------------------------------------------------------------
(* Universe *)

Controllers == {"A", "B"}
Workers == {"w1", "w2"}

None == "None"
NoThread == "nobody"

NJoints == 6
\* timeout = 5 s and time.sleep(0.5), in ticks of 0.5 s
TimeoutTicks == 10
SleepTicks == 1
\* scheduling overshoot of one sleep, in ticks
MaxJitter == 1

\* joints[i] * factor, round()
factor == 1000
AngleDen == 2000
PointDen == 2

\* ModelType of the generated protobuf module: UNSPECIFIED is the zero value
\* (falsy in "if self._model_type:"), LERP and IK are distinct non-zero values
MODEL_TYPE_UNSPECIFIED == 0
MODEL_TYPE_LERP == 1
MODEL_TYPE_IK == 2
ModelTypes == {MODEL_TYPE_UNSPECIFIED, MODEL_TYPE_LERP, MODEL_TYPE_IK}

AllOf(l) == \A i \in DOMAIN l : l[i]
AnyOf(l) == \E i \in DOMAIN l : l[i]

AllTrue == [i \in 1..NJoints |-> TRUE]
AllFalse == [i \in 1..NJoints |-> FALSE]
LastFalse == [i \in 1..NJoints |-> i # NJoints]
LastTrue == [i \in 1..NJoints |-> i = NJoints]
\* values the six driver_enable_status reads of one round can take
FlagVectors == {AllTrue, AllFalse, LastFalse, LastTrue}

---------------------------------------------------------------------------
(* LinearInterpModel: geometry and barycentric interpolation *)

\* Vertex.values of the 8 vertices built by LinearInterpModel.__init__
vertices ==
    [i \in 0..7 |->
        CASE i = 0 -> <<-1, 1, 1>>
          [] i = 1 -> <<1, 1, 1>>
          [] i = 2 -> <<1, 1, -1>>
          [] i = 3 -> <<-1, 1, -1>>
          [] i = 4 -> <<-1, -1, 1>>
          [] i = 5 -> <<1, -1, 1>>
          [] i = 6 -> <<1, -1, -1>>
          [] OTHER -> <<-1, -1, -1>>]

\* the four corner simplices without the simplex in the middle of the cube
simplices_corners ==
    << <<0, 1, 2, 5>>, <<0, 4, 5, 7>>, <<0, 2, 3, 7>>, <<2, 5, 6, 7>> >>

\* vertex_indices of the 5 simplices, in construction order
simplices ==
    << <<0, 1, 2, 5>>, <<0, 2, 5, 7>>, <<0, 4, 5, 7>>, <<0, 2, 3, 7>>, <<2, 5, 6, 7>> >>

Det3(a, b, c) ==
    a[1] * (b[2] * c[3] - b[3] * c[2])
    - b[1] * (a[2] * c[3] - a[3] * c[2])
    + c[1] * (a[2] * b[3] - a[3] * b[2])

\* determinant of the 4x4 matrix whose columns are c1..c4 (rows x, y, z, w)
Det4(c1, c2, c3, c4) ==
    - c1[4] * Det3(c2, c3, c4) + c2[4] * Det3(c1, c3, c4)
    - c3[4] * Det3(c1, c2, c4) + c4[4] * Det3(c1, c2, c3)

Homog(v, w) == <<v[1], v[2], v[3], w>>

\* np.linalg.solve(A, p): the solution of A l = (point, 1) by Cramer's rule, as
\* the four numerators num[k] over the common denominator den > 0.  vs are the
\* four vertex rows, point is in units of 1/PointDen.
to_barycentric(vs, point) ==
    LET a == Homog(vs[1], 1)
        b == Homog(vs[2], 1)
        c == Homog(vs[3], 1)
        d == Homog(vs[4], 1)
        p == Homog(point, PointDen)
        det == Det4(a, b, c, d)
        sg == IF det < 0 THEN -1 ELSE 1
    IN  [num |-> << sg * Det4(p, b, c, d), sg * Det4(a, p, c, d),
                    sg * Det4(a, b, p, d), sg * Det4(a, b, c, p) >>,
         den |-> sg * det * PointDen]

\* a test that only asks the weights to be at most 1
hit_test_upper(vs, point) ==
    LET l == to_barycentric(vs, point)
    IN  \A i \in 1..4 : l.num[i] <= l.den

\* all([0 <= l[i] <= 1 for i in range(4)])
hit_test(vs, point) ==
    LET l == to_barycentric(vs, point)
    IN  \A i \in 1..4 : 0 <= l.num[i] /\ l.num[i] <= l.den

\* a weighted sum that leaves out the last vertex of the simplex
interpolate_three(vs, targets, point) ==
    LET l == to_barycentric(vs, point)
    IN  [num |-> [j \in 1..Len(targets[1]) |->
                    l.num[1] * targets[1][j] + l.num[2] * targets[2][j]
                    + l.num[3] * targets[3][j]],
         den |-> l.den]

\* l[0]*targets[0] + ... + l[3]*targets[3]: numerators over the denominator den
interpolate(vs, targets, point) ==
    LET l == to_barycentric(vs, point)
    IN  [num |-> [j \in 1..Len(targets[1]) |->
                    l.num[1] * targets[1][j] + l.num[2] * targets[2][j]
                    + l.num[3] * targets[3][j] + l.num[4] * targets[4][j]],
         den |-> l.den]

\* LinearInterpModel(): can_interpolate = False, no bulk targets, every
\* Vertex.target_group = np.zeros((1,))
NewLerp ==
    [exists |-> TRUE,
     can_interpolate |-> FALSE,
     targets |-> <<>>,
     target_group |-> [i \in 0..7 |-> [shape |-> <<1>>, flat |-> <<0>>]]]

\* DexHandController._lerp before setup_model: the attribute does not exist
NoLerp == [NewLerp EXCEPT !.exists = FALSE]

SimplexVertices(s) == [k \in 1..4 |-> vertices[simplices[s][k]]]
\* the target groups of the vertices of simplex s
SimplexGroups(m, s) == [k \in 1..4 |-> m.target_group[simplices[s][k]].flat]

\* a * targets[k] on arrays of different length: an array of one element is
\* stretched to the length n of the others
Broadcast(row, n) == IF Len(row) = 1 THEN [j \in 1..n |-> row[1]] ELSE row

\* the longest target group of simplex s
GroupDim(m, s) ==
    CHOOSE n \in {Len(SimplexGroups(m, s)[k]) : k \in 1..4} :
        \A k \in 1..4 : Len(SimplexGroups(m, s)[k]) <= n

\* the rows of the simplex without the row of its last vertex
SimplexTargetsShort(m, s) ==
    [k \in 1..4 |-> Broadcast(SimplexGroups(m, s)[IF k = 4 THEN 3 ELSE k], GroupDim(m, s))]

\* target_groups: one flattened target_group per vertex of simplex s
SimplexTargets(m, s) ==
    [k \in 1..4 |-> Broadcast(SimplexGroups(m, s)[k], GroupDim(m, s))]

\* index of the first simplex of the scan that passes hit_test, 0 when none
FirstHit(point) ==
    LET hits == { s \in 1..Len(simplices) : hit_test(SimplexVertices(s), point) }
    IN  IF hits = {} THEN 0
        ELSE CHOOSE s \in hits : \A t \in hits : s <= t

\* LinearInterpModel.interpolate(point): the value, or the error it raises
LerpInterpolate(m, point) ==
    IF ~m.can_interpolate
    THEN [ok |-> FALSE, err |-> "NotConfigured"]
    ELSE IF Len(point) # 3
    THEN [ok |-> FALSE, err |-> "BadPoint"]
    ELSE LET s == FirstHit(point)
         IN  IF s = 0
             THEN [ok |-> FALSE, err |-> "OutOfRange"]
             ELSE [ok |-> TRUE,
                   value |-> interpolate(SimplexVertices(s), SimplexTargets(m, s), point)]

\* np.array([...target_group.flatten()...]) of simplex s has rows of one length
Homogeneous(m, s) == \A k \in 1..4 : Len(SimplexGroups(m, s)[k]) = GroupDim(m, s)

\* the simplices the scan of interpolate(point) builds arrays for
Scanned(point) ==
    IF FirstHit(point) = 0 THEN 1..Len(simplices) ELSE 1..FirstHit(point)

\* LinearInterpModel.interpolate(point) under numpy: when strict, np.array
\* rejects rows of different lengths (numpy 1.24 and later); otherwise it
\* builds an array of objects and the products broadcast
LerpInterpolateOn(m, point, strict) ==
    IF ~m.can_interpolate
    THEN [ok |-> FALSE, err |-> "NotConfigured"]
    ELSE IF Len(point) # 3
    THEN [ok |-> FALSE,
          err |-> IF strict /\ ~Homogeneous(m, 1) THEN "Inhomogeneous" ELSE "BadPoint"]
    ELSE IF strict /\ (\E s \in 1..Len(simplices) : ~Homogeneous(m, s))
                   /\ (\E s \in Scanned(point) : ~Homogeneous(m, s))
    THEN [ok |-> FALSE, err |-> "Inhomogeneous"]
    ELSE LerpInterpolate(m, point)

\* all([v.target_group.size > 0 for v in self.vertices])
AllSize(groups) == \A i \in DOMAIN groups : Len(groups[i].flat) > 0

\* a set_target that also writes the vertex behind vertex_idx
set_target_spill(m, vertex_idx, targets) ==
    IF ~(Len(targets) = 1) \/ vertex_idx \notin DOMAIN m.target_group
    THEN [model |-> m, err |-> "BadTargets"]
    ELSE LET group == [shape |-> <<1, Len(targets[1])>>, flat |-> targets[1]]
         IN  [model |-> [m EXCEPT !.target_group =
                            [i \in 0..7 |-> IF i \in {vertex_idx, (vertex_idx + 1) % 8}
                                            THEN group ELSE m.target_group[i]],
                                  !.can_interpolate = TRUE],
              err |-> None]

\* LinearInterpModel.set_target(vertex_idx, targets): the model after the call
\* and the error raised, if any.  targets is the array as a sequence of rows.
set_target(m, vertex_idx, targets) ==
    IF ~(Len(targets) = 1)
    THEN [model |-> m, err |-> "BadTargets"]
    ELSE IF vertex_idx \notin DOMAIN m.target_group
    THEN [model |-> m, err |-> "IndexError"]
    ELSE LET groups == [m.target_group EXCEPT
                            ![vertex_idx] = [shape |-> <<1, Len(targets[1])>>,
                                             flat |-> targets[1]]]
         IN  [model |-> [m EXCEPT !.target_group = groups,
                                  !.can_interpolate = IF AllSize(groups) THEN TRUE ELSE @],
              err |-> None]

\* LinearInterpModel.set_targets(targets): the model after the call and the
\* error raised, if any.  rows is the array as a sequence of rows.
set_targets(m, rows) ==
    IF ~(Len(rows) # 8)
    THEN [model |-> m, err |-> "BadTargets"]
    ELSE [model |-> [m EXCEPT !.targets = rows, !.can_interpolate = TRUE],
          err |-> None]

---------------------------------------------------------------------------
(* Inputs *)

\* joint lists passed to move_j, angles in units of 1/AngleDen: six angles
\* (with ties of the rounding in both directions), five and seven angles
JointInputs ==
    { <<1, 3, -3, 5, 4000, 0>>, <<0, 0, 0, 0, 0>>, <<0, 0, 0, 0, 0, 0, 0>> }

\* poses passed to move_p, coordinates in units of 1/PointDen: the centre of
\* the cube, an interior point, the vertex (1,1,1), the point (2,2,2), and a
\* list that is no 3-D point
PoseInputs ==
    { <<0, 0, 0>>, <<1, -1, 1>>, <<2, 2, 2>>, <<4, 4, 4>>, <<0, 0>> }

Row(i) == [j \in 1..NJoints |-> 10 * i + j]
\* calibration arrays passed to setup_model: 8 rows and 9 rows of NJoints values
DataInputs == { [i \in 1..8 |-> Row(i)], [i \in 1..9 |-> Row(i)] }

ModeInputs == {0, 1}

LockedOps ==
    {"connect", "disconnect", "enable", "disable", "move_j", "move_p",
     "get_status", "change_ctrl_mode"}

NoCall == [op |-> None, ctl |-> None, arg |-> <<>>, mtype |-> 0, data |-> <<>>]
NoOut == [status |-> None, value |-> None, err |-> None, wrapped |-> FALSE]
NoHs ==
    [elapsed_time |-> 0, now |-> 0, enable_list |-> AllFalse, enable_flag |-> FALSE,
     loop_flag |-> FALSE, rounds |-> 0, observed |-> FALSE, resp |-> None]

Ok(v) == [status |-> "ok", value |-> v, err |-> None, wrapped |-> FALSE]
\* an exception that reaches the caller as raised
Raise(e) == [status |-> "error", value |-> None, err |-> e, wrapped |-> FALSE]
\* except Exception as e: raise Exception(f"Failed to ...: {e}")
Wrap(e) == [status |-> "error", value |-> None, err |-> e, wrapped |-> TRUE]

PyBool(b) == IF b THEN "True" ELSE "False"

Cmd(name, args) == [cmd |-> name, args |-> args]

---------------------------------------------------------------------------
(* Locking *)

\* self._lock: _lock is assigned once in the class body of DexHandController,
\* so every controller instance uses the same RLock object
LockOf(c) == "DexHandController._lock"
Locks == {LockOf(c) : c \in Controllers}

FreeLock == [owner |-> NoThread, count |-> 0]

\* an acquire that never waits
CanAcquireAnyway(w, c) == TRUE

\* RLock.acquire() does not block: the lock is free or owned by the caller
CanAcquire(w, c) == lock[LockOf(c)].owner \in {NoThread, w}

AcquireLock(w, c) ==
    [lock EXCEPT ![LockOf(c)] = [owner |-> w, count |-> @.count + 1]]

\* an exit of "with self._lock" that keeps the lock
ReleaseLockNever(w, c) == lock

ReleaseLock(w, c) ==
    [lock EXCEPT ![LockOf(c)] =
        IF @.count = 1 THEN FreeLock ELSE [@ EXCEPT !.count = @ - 1]]

---------------------------------------------------------------------------
(* Requests and locals of the streaming calls of DexHandControlService *)

\* the thread of the streaming handler and the thread of a unary handler
SessionThread == "session"
RpcThread == "rpc"

\* messages of a request stream read by one call
MaxMsgs == 3
\* status messages pushed by one ReceiveStatus call
MaxStatus == 2
\* await asyncio.sleep(1), in ticks of 0.5 s
StatusSleepTicks == 2

StreamRpcs == {"SendJoint", "SendPose"}
PushRpc == "ReceiveStatus"

SetupRequest(id) == [kind |-> "setup_request", id |-> id, arg |-> <<>>]
PacketRequest(poses) == [kind |-> "packet_request", id |-> None, arg |-> poses]
CancelRequest == [kind |-> "cancel_request", id |-> None, arg |-> <<>>]
\* the client has closed its side: the request iterator is exhausted
EndOfStream == [kind |-> "end_of_stream", id |-> None, arg |-> <<>>]
NoRequest == [kind |-> None, id |-> None, arg |-> <<>>]

\* packet_request.poses sent on the command streams: six joint angles for
\* SendJoint, a point of the control space for SendPose
PacketInputs(rpc) ==
    IF rpc = "SendJoint" THEN { <<1, 3, -3, 5, 4000, 0>> } ELSE { <<1, -1, 1>> }

Requests(rpc) ==
    {SetupRequest(id) : id \in Controllers}
        \cup {PacketRequest(a) : a \in PacketInputs(rpc)}
        \cup {CancelRequest, EndOfStream}

\* the locals of the handler: dex_hand, the request in hand, the status code
\* set on the context (None: OK), the exception that ended the call;
\* cancel_done is cancel_task.done(), remaining the ticks left of the sleep.
\* History: log holds every request read with what the handler did with it,
\* acks the positions in the stream of the requests answered by a yield
\* (the statuses yielded, for ReceiveStatus), late the ticks slept since
\* cancel_task ended, ticks the sleeps completed.
NoSession ==
    [rpc |-> None, pc |-> "closed", dex_hand |-> None, request |-> NoRequest,
     code |-> None, err |-> None, log |-> <<>>, acks |-> <<>>,
     cancel_done |-> FALSE, remaining |-> 0, late |-> 0, ticks |-> 0]

Entry(request, event, ctl) == [request |-> request, event |-> event, ctl |-> ctl]

---------------------------------------------------------------------------
(* DexHandController.__init__ *)

ArmTypes == {"ARM_TYPE_UNSPECIFIED", "ARM_TYPE_PIPER", "ARM_TYPE_NOVA"}
HandTypes == {"HAND_TYPE_UNSPECIFIED", "HAND_TYPE_INSPIRE", "HAND_TYPE_DH"}

\* request.config of CreateDexHand
Configs == [arm_type : ArmTypes, hand_type : HandTypes]
PiperInspire == [arm_type |-> "ARM_TYPE_PIPER", hand_type |-> "HAND_TYPE_INSPIRE"]

\* the class attributes of DexHandController; _arm and _hand are not set
NoDevice ==
    [arm_type |-> "ARM_TYPE_UNSPECIFIED", hand_type |-> "HAND_TYPE_UNSPECIFIED",
     arm |-> None, hand |-> None]

\* DexHandController._setup_arm: the handle assigned to self._arm, or the error
setup_arm(arm_type) ==
    CASE arm_type = "ARM_TYPE_PIPER" -> [err |-> None, handle |-> "PiperArm"]
      [] arm_type = "ARM_TYPE_NOVA" -> [err |-> "NotImplementedError", handle |-> None]
      [] OTHER -> [err |-> "ValueError", handle |-> None]

\* DexHandController._setup_hand without the check of hand_type
setup_hand_unchecked(hand_type) ==
    [err |-> None,
     handle |-> IF hand_type = "HAND_TYPE_INSPIRE" THEN "InspireHand" ELSE None]

\* DexHandController._setup_hand
setup_hand(hand_type) ==
    CASE hand_type = "HAND_TYPE_INSPIRE" -> [err |-> None, handle |-> "InspireHand"]
      [] hand_type = "HAND_TYPE_DH" -> [err |-> "NotImplementedError", handle |-> None]
      [] OTHER -> [err |-> "ValueError", handle |-> None]

\* DexHandController(side, arm_type, hand_type): the fields of the object when
\* __init__ ends, and the exception that ends it (None: the object is returned)
DexHandController(config) ==
    LET a == setup_arm(config.arm_type)
        h == setup_hand(config.hand_type)
        typed == [NoDevice EXCEPT !.arm_type = config.arm_type,
                                  !.hand_type = config.hand_type]
    IN  IF a.err # None THEN [err |-> a.err, self |-> typed]
        ELSE IF h.err # None
        THEN [err |-> h.err, self |-> [typed EXCEPT !.arm = a.handle]]
        ELSE [err |-> None, self |-> [typed EXCEPT !.arm = a.handle, !.hand = h.handle]]

---------------------------------------------------------------------------
(* State *)

NewArm == [piper |-> FALSE, is_connected |-> FALSE, is_enabled |-> FALSE]

Init ==
    /\ arm = [c \in Controllers |-> NewArm]
    /\ model_type = [c \in Controllers |-> MODEL_TYPE_UNSPECIFIED]
    /\ lerp = [c \in Controllers |-> NoLerp]
    /\ lock = [l \in Locks |-> FreeLock]
    /\ pc = [w \in Workers |-> "idle"]
    /\ call = [w \in Workers |-> NoCall]
    /\ hs = [w \in Workers |-> NoHs]
    /\ out = [w \in Workers |-> NoOut]
    /\ sent = [w \in Workers |-> <<>>]
    /\ dex_hands = <<>>
    /\ created = <<>>
    /\ deleted = {}
    /\ session = NoSession
    /\ device = [c \in Controllers |-> NoDevice]

\* the worker is inside "with self._lock"
Inside(w) == pc[w] \in {"in", "nested", "poll", "polled", "exit"}

\* the body of a locked operation finishes with outcome o
Finish(w, o) ==
    /\ out' = [out EXCEPT ![w] = o]
    /\ pc' = [pc EXCEPT ![w] = "exit"]

---------------------------------------------------------------------------
(* PiperArm *)

speed_ratio == 30

\* round(): Python 3 rounds n/d (d > 0) to the nearest integer, ties to even
RoundHalfEven(n, d) ==
    LET q == n \div d
        r == n % d
    IN  IF 2 * r < d THEN q
        ELSE IF 2 * r > d THEN q + 1
        ELSE IF q % 2 = 0 THEN q ELSE q + 1

\* PiperArm.joint_ctrl: the driver calls, each angle * factor rounded
\* joint_ctrl without the control-mode-set after the joint command
joint_ctrl_once(joints) ==
    << Cmd("MotionCtrl_2", <<1, 1, speed_ratio, 0>>),
       Cmd("JointCtrl", [i \in 1..NJoints |-> RoundHalfEven(joints[i] * factor, AngleDen)]) >>

joint_ctrl(joints) ==
    << Cmd("MotionCtrl_2", <<1, 1, speed_ratio, 0>>),
       Cmd("JointCtrl", [i \in 1..NJoints |-> RoundHalfEven(joints[i] * factor, AngleDen)]),
       Cmd("MotionCtrl_2", <<1, 1, speed_ratio, 0>>) >>

\* a move_j that checks the length before the state of the arm
move_j_LengthFirst(a, joints) ==
    IF Len(joints) # NJoints
    THEN [err |-> "InvalidArgument", cmds |-> <<>>]
    ELSE IF ~(a.is_enabled /\ a.is_connected)
    THEN [err |-> "NotReady", cmds |-> <<>>]
    ELSE [err |-> None, cmds |-> joint_ctrl(joints)]

\* PiperArm.move_j: the error raised (None when accepted) and the driver calls
move_j(a, joints) ==
    IF ~(a.is_enabled /\ a.is_connected)
    THEN [err |-> "NotReady", cmds |-> <<>>]
    ELSE IF Len(joints) # NJoints
    THEN [err |-> "InvalidArgument", cmds |-> <<>>]
    ELSE [err |-> None, cmds |-> joint_ctrl(joints)]

\* history: the flags read in a round show the state the handshake asks for,
\* all six joints enabled (enable) or no joint enabled (disable)
Settled(op, list) ==
    IF op = "enable" THEN \A i \in 1..NJoints : list[i]
    ELSE \A i \in 1..NJoints : ~list[i]

\* a loop test that is satisfied by a single flag
EnableFlagAny(op, list) == AnyOf(list)

\* the loop's test of the flags read in one round: all() in enable, any() in disable
EnableFlag(op, list) == IF op = "enable" THEN AllOf(list) ELSE AnyOf(list)

\* if enable_flag == True (enable) / == False (disable): loop_flag = True
LoopDone(op, flag) == IF op = "enable" THEN flag ELSE ~flag

\* a loop without the deadline
TimedOutNever(elapsed) == FALSE

\* if elapsed_time > timeout
TimedOut(elapsed) == elapsed > TimeoutTicks

\* enable_flag on timeout: False in enable, True in disable
TimeoutFlag(op) == op = "disable"

\* the six reads of driver_enable_status of one round, motor_1 .. motor_6
FlagReads == [k \in 1..NJoints |-> Cmd("GetArmLowSpdInfoMsgs", <<k>>)]

\* driver calls of one round, in the order of the loop body: the six reads of
\* the flags, then the command
RoundCmds(op) ==
    FlagReads \o
    (IF op = "enable"
     THEN << Cmd("EnableArm", <<7>>) >>
     ELSE << Cmd("DisableArm", <<7>>), Cmd("GripperCtrl", <<0, 1000, 2, 0>>) >>)

\* self._is_enabled after the loop: True in enable, False in disable
EnabledAfter(op) == op = "enable"

---------------------------------------------------------------------------
(* Operations of DexHandController, one worker thread each *)

\* a worker calls a locked operation and reaches "with self._lock"
Call(w, op, c, arg) ==
    /\ pc[w] = "idle"
    /\ op \in LockedOps
    /\ call' = [call EXCEPT ![w] = [NoCall EXCEPT !.op = op, !.ctl = c, !.arg = arg]]
    /\ pc' = [pc EXCEPT ![w] = "waiting"]
    /\ UNCHANGED <<arm, model_type, lerp, lock, hs, out, sent, svc>>

Acquire(w) ==
    /\ pc[w] = "waiting"
    /\ CanAcquire(w, call[w].ctl)
    /\ lock' = AcquireLock(w, call[w].ctl)
    /\ pc' = [pc EXCEPT ![w] = "in"]
    /\ UNCHANGED <<arm, model_type, lerp, call, hs, out, sent, svc>>

\* DexHandController.connect -> PiperArm.connect; ConnectPort may raise
Connect(w) ==
    /\ pc[w] = "in" /\ call[w].op = "connect"
    /\ \E driver_ok \in BOOLEAN :
        /\ arm' = [arm EXCEPT ![call[w].ctl] =
                    [@ EXCEPT !.piper = TRUE,
                              !.is_connected = IF driver_ok THEN TRUE ELSE @]]
        /\ Finish(w, IF driver_ok THEN Ok(None) ELSE Wrap("ConnectionError"))
    /\ sent' = [sent EXCEPT ![w] = Append(@, Cmd("ConnectPort", <<>>))]
    /\ UNCHANGED <<model_type, lerp, lock, call, hs, svc>>

\* DexHandController.disconnect -> PiperArm.disconnect: del self.piper
Disconnect(w) ==
    /\ pc[w] = "in" /\ call[w].op = "disconnect"
    /\ IF arm[call[w].ctl].piper
       THEN /\ arm' = [arm EXCEPT ![call[w].ctl] =
                        [@ EXCEPT !.piper = FALSE, !.is_connected = FALSE]]
            /\ Finish(w, Ok(None))
       ELSE /\ Finish(w, Wrap("AttributeError"))
            /\ UNCHANGED arm
    /\ UNCHANGED <<model_type, lerp, lock, call, hs, sent, svc>>

\* PiperArm.enable / disable up to the loop: piper = self.piper and the locals
HandshakeBegin(w) ==
    /\ pc[w] = "in" /\ call[w].op \in {"enable", "disable"}
    /\ IF arm[call[w].ctl].piper
       THEN /\ hs' = [hs EXCEPT ![w] = NoHs]
            /\ pc' = [pc EXCEPT ![w] = "poll"]
            /\ UNCHANGED out
       ELSE /\ Finish(w, Wrap("AttributeError"))
            /\ UNCHANGED hs
    /\ UNCHANGED <<arm, model_type, lerp, lock, call, sent, svc>>

\* one iteration of the while loop, the sleep included; the sleep lasts
\* SleepTicks plus an overshoot drawn from Jitter
PollRound(w, Jitter) ==
    /\ pc[w] = "poll"
    /\ \E list \in FlagVectors, jitter \in Jitter :
        LET op == call[w].op
            elapsed == hs[w].now
            flag == EnableFlag(op, list)
            done == LoopDone(op, flag) \/ TimedOut(elapsed)
        IN  /\ hs' = [hs EXCEPT ![w] =
                        [@ EXCEPT !.elapsed_time = elapsed,
                                  !.enable_list = list,
                                  !.enable_flag =
                                      IF TimedOut(elapsed) THEN TimeoutFlag(op) ELSE flag,
                                  !.loop_flag = done,
                                  !.rounds = @ + 1,
                                  !.observed = @ \/ (Settled(op, list) /\ elapsed <= TimeoutTicks),
                                  !.now = IF TimedOut(elapsed) THEN @
                                          ELSE @ + SleepTicks + jitter]]
            /\ sent' = [sent EXCEPT ![w] = @ \o RoundCmds(op)]
            /\ pc' = [pc EXCEPT ![w] = IF done THEN "polled" ELSE "poll"]
    /\ UNCHANGED <<arm, model_type, lerp, lock, call, out, svc>>

\* the controller's value for the arm's return value resp: self._arm.enable()
\* is called as a statement, the method ends without a return
HandshakeResult(resp) == None

\* after the loop: resp = enable_flag; self._is_enabled = ...; return resp
HandshakeReturn(w) ==
    /\ pc[w] = "polled"
    /\ arm' = [arm EXCEPT ![call[w].ctl] =
                [@ EXCEPT !.is_enabled = EnabledAfter(call[w].op)]]
    /\ hs' = [hs EXCEPT ![w] = [@ EXCEPT !.resp = PyBool(hs[w].enable_flag)]]
    /\ Finish(w, Ok(HandshakeResult(PyBool(hs[w].enable_flag))))
    /\ UNCHANGED <<model_type, lerp, lock, call, sent, svc>>

\* DexHandController.move_j -> PiperArm.move_j
MoveJ(w) ==
    /\ pc[w] = "in" /\ call[w].op = "move_j"
    /\ LET r == move_j(arm[call[w].ctl], call[w].arg)
       IN  /\ sent' = [sent EXCEPT ![w] = @ \o r.cmds]
           /\ Finish(w, IF r.err = None THEN Ok(None) ELSE Wrap(r.err))
    /\ UNCHANGED <<arm, model_type, lerp, lock, call, hs, svc>>

\* DexHandController.move_p: "if self._model_type:" chooses move_p_ik or
\* _move_p_lerp, which takes the lock again (RLock, same thread)
MovePDispatch(w) ==
    /\ pc[w] = "in" /\ call[w].op = "move_p"
    /\ call' = [call EXCEPT ![w] = [@ EXCEPT !.mtype = model_type[call[w].ctl]]]
    /\ lock' = AcquireLock(w, call[w].ctl)
    /\ pc' = [pc EXCEPT ![w] = "nested"]
    /\ UNCHANGED <<arm, model_type, lerp, hs, out, sent, svc>>

\* outcome of move_p_ik: the body is "pass"
move_p_ik(pose) == Ok(None)

\* outcome of _move_p_lerp on mapper m: the interpolated joints are logged,
\* the call of self._arm.move_j is commented out
move_p_lerp(m, pose) ==
    IF ~m.exists THEN Wrap("AttributeError")
    ELSE IF ~m.can_interpolate THEN Wrap("NotConfigured")
    ELSE IF ~LerpInterpolate(m, pose).ok THEN Wrap(LerpInterpolate(m, pose).err)
    ELSE Ok(None)

\* driver calls issued by move_p_ik / _move_p_lerp
move_p_cmds(m, pose) == <<>>

\* a nested "with self._lock" that keeps the lock when its body raises
MovePBodyHolding(w) ==
    /\ pc[w] = "nested"
    /\ Finish(w, IF call[w].mtype # MODEL_TYPE_UNSPECIFIED
                 THEN move_p_ik(call[w].arg)
                 ELSE move_p_lerp(lerp[call[w].ctl], call[w].arg))
    /\ sent' = [sent EXCEPT ![w] = @ \o move_p_cmds(lerp[call[w].ctl], call[w].arg)]
    /\ lock' = IF out'[w].status = "error" THEN lock ELSE ReleaseLock(w, call[w].ctl)
    /\ UNCHANGED <<arm, model_type, lerp, call, hs, svc>>

MovePBody(w) ==
    /\ pc[w] = "nested"
    /\ Finish(w, IF call[w].mtype # MODEL_TYPE_UNSPECIFIED
                 THEN move_p_ik(call[w].arg)
                 ELSE move_p_lerp(lerp[call[w].ctl], call[w].arg))
    /\ sent' = [sent EXCEPT ![w] = @ \o move_p_cmds(lerp[call[w].ctl], call[w].arg)]
    /\ lock' = ReleaseLock(w, call[w].ctl)
    /\ UNCHANGED <<arm, model_type, lerp, call, hs, svc>>

\* DexHandController.get_status -> PiperArm.get_joint_states / get_arm_status
GetStatus(w) ==
    /\ pc[w] = "in" /\ call[w].op = "get_status"
    /\ Finish(w, IF arm[call[w].ctl].piper THEN Ok("status") ELSE Wrap("AttributeError"))
    /\ UNCHANGED <<arm, model_type, lerp, lock, call, hs, sent, svc>>

\* DexHandController.change_ctrl_mode -> PiperArm.change_ctrl_mode
ChangeCtrlMode(w) ==
    /\ pc[w] = "in" /\ call[w].op = "change_ctrl_mode"
    /\ IF arm[call[w].ctl].piper
       THEN /\ sent' = [sent EXCEPT ![w] =
                         Append(@, Cmd("MotionCtrl_1", <<0, 0>> \o call[w].arg))]
            /\ Finish(w, Ok(None))
       ELSE /\ Finish(w, Wrap("AttributeError"))
            /\ UNCHANGED sent
    /\ UNCHANGED <<arm, model_type, lerp, lock, call, hs, svc>>

\* leaving "with self._lock", by return or by exception: the lock is released
\* and the outcome goes to the caller, the worker is free for the next call
Release(w) ==
    /\ pc[w] = "exit"
    /\ lock' = ReleaseLock(w, call[w].ctl)
    /\ pc' = [pc EXCEPT ![w] = "idle"]
    /\ call' = [call EXCEPT ![w] = NoCall]
    /\ hs' = [hs EXCEPT ![w] = NoHs]
    /\ out' = [out EXCEPT ![w] = NoOut]
    /\ sent' = [sent EXCEPT ![w] = <<>>]
    /\ UNCHANGED <<arm, model_type, lerp, svc>>

\* setup_model has ended; its outcome goes to the caller
Return(w) ==
    /\ pc[w] = "done"
    /\ pc' = [pc EXCEPT ![w] = "idle"]
    /\ call' = [call EXCEPT ![w] = NoCall]
    /\ out' = [out EXCEPT ![w] = NoOut]
    /\ UNCHANGED <<arm, model_type, lerp, lock, hs, sent, svc>>

\* DexHandController.setup_model, first statement: self._model_type = model_type
\* (the method takes no lock)
SetupModelBegin(w, c, mt, data) ==
    /\ pc[w] = "idle"
    /\ model_type' = [model_type EXCEPT ![c] = mt]
    /\ call' = [call EXCEPT ![w] =
                 [NoCall EXCEPT !.op = "setup_model", !.ctl = c, !.mtype = mt, !.data = data]]
    /\ pc' = [pc EXCEPT ![w] = "setup"]
    /\ UNCHANGED <<arm, lerp, lock, hs, out, sent, svc>>

\* DexHandController.setup_model, the rest: a new LinearInterpModel and
\* set_targets for LERP, ValueError for IK and for any other type
SetupModelFinish(w) ==
    /\ pc[w] = "setup"
    /\ LET c == call[w].ctl
           r == set_targets(NewLerp, call[w].data)
       IN  IF call[w].mtype = MODEL_TYPE_LERP
           THEN /\ lerp' = [lerp EXCEPT ![c] = r.model]
                /\ out' = [out EXCEPT ![w] = IF r.err = None THEN Ok(None) ELSE Raise(r.err)]
           ELSE /\ out' = [out EXCEPT ![w] =
                            Raise(IF call[w].mtype = MODEL_TYPE_IK
                                  THEN "NotImplementedIK" ELSE "InvalidModelType")]
                /\ UNCHANGED lerp
    /\ pc' = [pc EXCEPT ![w] = "done"]
    /\ UNCHANGED <<arm, model_type, lock, call, hs, sent, svc>>

\* argument lists a call of op can carry
ArgsOf(op) ==
    CASE op = "move_j" -> JointInputs
      [] op = "move_p" -> PoseInputs
      [] op = "change_ctrl_mode" -> {<<m>> : m \in ModeInputs}
      [] OTHER -> {<<>>}

\* the steps of a worker inside a locked operation
Run(w, Jitter) ==
    \/ Acquire(w)
    \/ Connect(w)
    \/ Disconnect(w)
    \/ HandshakeBegin(w)
    \/ PollRound(w, Jitter)
    \/ HandshakeReturn(w)
    \/ MoveJ(w)
    \/ MovePDispatch(w)
    \/ MovePBody(w)
    \/ GetStatus(w)
    \/ ChangeCtrlMode(w)
    \/ Release(w)

\* One client thread driving one controller through every operation with
\* every input.
Next ==
    \/ \E op \in LockedOps : \E arg \in ArgsOf(op) : Call("w1", op, "A", arg)
    \/ \E mt \in ModelTypes, data \in DataInputs : SetupModelBegin("w1", "A", mt, data)
    \/ SetupModelFinish("w1")
    \/ Return("w1")
    \/ Run("w1", 0..MaxJitter)

Spec == Init /\ [][Next]_vars

\* Two worker threads of the pool calling the locked operations of two
\* controllers concurrently, one argument list per operation, every sleep
\* of the handshake lasting exactly SleepTicks.
ArgOf(op) == CHOOSE arg \in ArgsOf(op) : Len(arg) \in {0, 1, 3, NJoints}

NextConc ==
    \E w \in Workers :
        \/ \E op \in LockedOps, c \in Controllers : Call(w, op, c, ArgOf(op))
        \/ Run(w, {0})

SpecConc == Init /\ [][NextConc]_vars

---------------------------------------------------------------------------
(* Services: the registry (DexHandService) and the unary and streaming      *)
(* calls of DexHandControlService.  One streaming call is followed per run, *)
(* next to the unary calls that change the registry and the controllers.    *)

\* the state of the worker threads of the controller-level runs
workers == <<pc, call, hs, out, sent>>

\* the keys of a dict and "key in dict"
Keys(d) == {d[i] : i \in 1..Len(d)}
Registered(id) == id \in Keys(dex_hands)

\* a dict that inserts a new key in front of the others
DictSetFront(d, k) == IF k \in Keys(d) THEN d ELSE <<k>> \o d

\* d[k] = v: a new key goes behind the keys of the dict
DictSet(d, k) == IF k \in Keys(d) THEN d ELSE Append(d, k)

\* del d[k]
DictDel(d, k) == SelectSeq(d, LAMBDA x : x # k)

\* str(uuid.uuid4()): an id that no earlier call has produced
uuid4 == Controllers \ Keys(created)

\* DexHandService.CreateDexHand with a PIPER arm and an INSPIRE hand
CreateDexHand ==
    /\ \E id \in uuid4 :
        /\ device' = [device EXCEPT ![id] = DexHandController(PiperInspire).self]
        /\ dex_hands' = DictSet(dex_hands, id)
        /\ created' = Append(created, id)
    /\ UNCHANGED <<arm, model_type, lerp, lock, workers, deleted, session>>

\* DexHandService.GetDexHand: the status code (None: OK) and the reply
GetDexHand(id) ==
    IF ~Registered(id)
    THEN [code |-> "NOT_FOUND", value |-> None]
    ELSE [code |-> None, value |-> id]

\* DexHandService.ListDexHands: the ids of the protos, in the order of values()
ListDexHands == dex_hands

\* DexHandService.DeleteDexHand
DeleteDexHand(id) ==
    /\ IF ~Registered(id)
       THEN UNCHANGED <<dex_hands, deleted>>
       ELSE /\ dex_hands' = DictDel(dex_hands, id)
            /\ deleted' = deleted \cup {id}
    /\ UNCHANGED <<arm, model_type, lerp, lock, workers, created, session, device>>

\* DexHandControlService.ConnectDexHand -> DexHandController.connect, the
\* whole call with a driver that opens the port: it runs when the handler's
\* thread gets the controller's lock
ConnectDexHand(id) ==
    /\ Registered(id)
    /\ CanAcquire(RpcThread, id)
    /\ arm' = [arm EXCEPT ![id] = [@ EXCEPT !.piper = TRUE, !.is_connected = TRUE]]
    /\ UNCHANGED <<model_type, lerp, lock, workers, svc>>

\* DexHandControlService.EnableDexHand -> DexHandController.enable ->
\* PiperArm.enable, the whole call: AttributeError without self.piper,
\* otherwise the polling loop ends and self._is_enabled is assigned
EnableDexHand(id) ==
    /\ Registered(id)
    /\ CanAcquire(RpcThread, id)
    /\ arm[id].piper
    /\ arm' = [arm EXCEPT ![id] = [@ EXCEPT !.is_enabled = EnabledAfter("enable")]]
    /\ UNCHANGED <<model_type, lerp, lock, workers, svc>>

\* DexHandControlService.SetupModel with MODEL_TYPE_LERP ->
\* DexHandController.setup_model, the whole call
SetupModel(id, data) ==
    /\ Registered(id)
    /\ model_type' = [model_type EXCEPT ![id] = MODEL_TYPE_LERP]
    /\ lerp' = [lerp EXCEPT ![id] = set_targets(NewLerp, data).model]
    /\ UNCHANGED <<arm, lock, workers, svc>>

\* a client opens a streaming call; the handler starts with dex_hand = None
OpenSession(rpc) ==
    /\ session.rpc = None
    /\ session' = [NoSession EXCEPT !.rpc = rpc, !.pc = "read"]
    /\ UNCHANGED <<arm, model_type, lerp, lock, workers, dex_hands, created, deleted, device>>

\* where the command handler goes after a setup_request with an unknown id:
\* set_code and set_details, then the next turn of the for loop
AfterNotFound == "read"
\* after a packet_request while dex_hand is None: the next turn of the loop
AfterUnboundPacket == "read"

\* a for loop that goes on after a cancel_request
AfterEndOfStreamOnly(request) ==
    IF request.kind = "end_of_stream" THEN "done" ELSE "read"

\* the for loop of SendJoint / SendPose ends at a cancel_request (break) and
\* when the request iterator is exhausted
AfterEnd(request) == "done"

\* dex_hand = self.dex_hands.get(request.setup_request.dexhand_id, None)
Bind(dex_hand, id) == id

\* SendJoint / SendPose: "for request in request_iterator" takes the next
\* request and runs the branch of its oneof up to the call of the controller,
\* the yield, the break or the next turn of the loop
StreamRead(request) ==
    /\ session.rpc \in StreamRpcs /\ session.pc = "read"
    /\ Len(session.log) < MaxMsgs
    /\ request \in Requests(session.rpc)
    /\ session' =
        CASE request.kind = "setup_request" /\ ~Registered(request.id) ->
                [session EXCEPT !.code = "NOT_FOUND",
                                !.log = Append(@, Entry(request, "not_found", None)),
                                !.pc = AfterNotFound]
          [] request.kind = "setup_request" /\ Registered(request.id) ->
                [session EXCEPT !.dex_hand = Bind(@, request.id),
                                !.log = Append(@, Entry(request, "bound",
                                                        Bind(session.dex_hand, request.id))),
                                !.pc = "yield"]
          [] request.kind = "packet_request" /\ session.dex_hand # None ->
                [session EXCEPT !.request = request,
                                !.log = Append(@, Entry(request, "pending", session.dex_hand)),
                                !.pc = "apply"]
          [] request.kind = "packet_request" /\ session.dex_hand = None ->
                [session EXCEPT !.log = Append(@, Entry(request, "ignored", None)),
                                !.pc = AfterUnboundPacket]
          [] request.kind = "cancel_request" ->
                [session EXCEPT !.log = Append(@, Entry(request, "cancel", None)),
                                !.pc = AfterEnd(request)]
          [] OTHER ->
                [session EXCEPT !.log = Append(@, Entry(request, "end", None)),
                                !.pc = AfterEnd(request)]
    /\ UNCHANGED <<arm, model_type, lerp, lock, workers, dex_hands, created, deleted, device>>

\* outcome of DexHandController.move_j / move_p called by the handler
Apply(rpc, c, poses) ==
    IF rpc = "SendJoint"
    THEN IF move_j(arm[c], poses).err = None THEN Ok(None)
         ELSE Wrap(move_j(arm[c], poses).err)
    ELSE IF model_type[c] # MODEL_TYPE_UNSPECIFIED THEN move_p_ik(poses)
         ELSE move_p_lerp(lerp[c], poses)

\* a handler that goes on to the yield whatever the call raised
AfterApplyAnyway(o) == "yield"

\* where the handler goes after the controller's call: to the yield, or out
\* of the generator with the exception
AfterApply(o) == IF o.status = "ok" THEN "yield" ELSE "done"

\* dex_hand.move_j(list(poses)) / dex_hand.move_p(list(poses)): the call runs
\* when the handler's thread gets the controller's lock; an exception leaves
\* the generator and ends the call with status UNKNOWN
StreamApply ==
    /\ session.rpc \in StreamRpcs /\ session.pc = "apply"
    /\ CanAcquire(SessionThread, session.dex_hand)
    /\ LET o == Apply(session.rpc, session.dex_hand, session.request.arg)
           k == Len(session.log)
       IN  session' =
            [session EXCEPT !.log[k].event = IF o.status = "ok" THEN "applied" ELSE "failed",
                            !.err = o.err,
                            !.code = IF o.status = "ok" THEN @ ELSE "UNKNOWN",
                            !.request = NoRequest,
                            !.pc = AfterApply(o)]
    /\ UNCHANGED <<arm, model_type, lerp, lock, workers, dex_hands, created, deleted, device>>

\* a yield that sends the acknowledgement twice
YieldTwice(acks, k) == acks \o <<k, k>>

\* the responses sent so far, after the yield that answers request k
Yield(acks, k) == Append(acks, k)

\* yield Empty(): the acknowledgement of the request in hand goes to the
\* client, the handler resumes at the next turn of the loop
StreamYield ==
    /\ session.rpc \in StreamRpcs /\ session.pc = "yield"
    /\ session' = [session EXCEPT !.acks = Yield(@, Len(session.log)),
                                  !.pc = "read"]
    /\ UNCHANGED <<arm, model_type, lerp, lock, workers, dex_hands, created, deleted, device>>

\* requests a client sends on a ReceiveStatus stream
PushRequests == {SetupRequest(id) : id \in Controllers} \cup {CancelRequest, EndOfStream}

\* ReceiveStatus, the first loop: requests are read until a setup_request;
\* an unknown id ends the call with NOT_FOUND, a stream that ends without a
\* setup_request ends it with INVALID_ARGUMENT
PushSetup(request) ==
    /\ session.rpc = PushRpc /\ session.pc = "read"
    /\ Len(session.log) < MaxMsgs
    /\ request \in PushRequests
    /\ session' =
        CASE request.kind = "setup_request" /\ ~Registered(request.id) ->
                [session EXCEPT !.code = "NOT_FOUND",
                                !.log = Append(@, Entry(request, "not_found", None)),
                                !.pc = "done"]
          [] request.kind = "setup_request" /\ Registered(request.id) ->
                [session EXCEPT !.dex_hand = request.id,
                                !.log = Append(@, Entry(request, "bound", request.id)),
                                !.pc = "loop"]
          [] request.kind = "cancel_request" ->
                [session EXCEPT !.log = Append(@, Entry(request, "ignored", None))]
          [] OTHER ->
                [session EXCEPT !.code = "INVALID_ARGUMENT",
                                !.log = Append(@, Entry(request, "end", None)),
                                !.pc = "done"]
    /\ UNCHANGED <<arm, model_type, lerp, lock, workers, dex_hands, created, deleted, device>>

\* check_cancel, running while the handler is suspended in the sleep: it
\* takes the next request and ends at a cancel_request or at the end of the
\* stream
PushCheckCancel(request) ==
    /\ session.rpc = PushRpc /\ session.pc = "sleep"
    /\ ~session.cancel_done
    /\ Len(session.log) < MaxMsgs
    /\ request \in PushRequests
    /\ session' =
        IF request.kind = "setup_request"
        THEN [session EXCEPT !.log = Append(@, Entry(request, "ignored", None))]
        ELSE [session EXCEPT
                !.log = Append(@, Entry(request,
                                        IF request.kind = "cancel_request"
                                        THEN "cancel" ELSE "end", None)),
                !.cancel_done = TRUE]
    /\ UNCHANGED <<arm, model_type, lerp, lock, workers, dex_hands, created, deleted, device>>

\* a loop that does not look at cancel_task
WhileTrue(s) == TRUE

\* while not cancel_task.done()
WhileNotDone(s) == ~s.cancel_done

\* the test of the while loop: the loop ends (finally: cancel_task.cancel())
\* or the handler calls dex_hand.get_status() and gets the controller's lock
PushLoop ==
    /\ session.rpc = PushRpc /\ session.pc = "loop"
    /\ IF ~WhileNotDone(session)
       THEN /\ session' = [session EXCEPT !.pc = "done"]
            /\ UNCHANGED lock
       ELSE /\ CanAcquire(SessionThread, session.dex_hand)
            /\ lock' = AcquireLock(SessionThread, session.dex_hand)
            /\ session' = [session EXCEPT !.pc = "status"]
    /\ UNCHANGED <<arm, model_type, lerp, workers, dex_hands, created, deleted, device>>

\* outcome of DexHandController.get_status: get_joint_states reads self.piper
get_status(c) == IF arm[c].piper THEN Ok("status") ELSE Wrap("AttributeError")

\* the body of get_status and the end of its "with self._lock"; an exception
\* leaves the generator (finally: cancel_task.cancel()) and ends the call
\* with status UNKNOWN
PushGetStatus ==
    /\ session.rpc = PushRpc /\ session.pc = "status"
    /\ LET o == get_status(session.dex_hand)
       IN  session' = [session EXCEPT !.err = o.err,
                                      !.code = IF o.status = "ok" THEN @ ELSE "UNKNOWN",
                                      !.pc = AfterApply(o)]
    /\ lock' = ReleaseLock(SessionThread, session.dex_hand)
    /\ UNCHANGED <<arm, model_type, lerp, workers, dex_hands, created, deleted, device>>

\* yield response; await asyncio.sleep(1): the status goes to the client and
\* the handler is suspended for StatusSleepTicks
PushYield ==
    /\ session.rpc = PushRpc /\ session.pc = "yield"
    /\ Len(session.acks) < MaxStatus
    /\ session' = [session EXCEPT !.acks = Append(@, Len(session.acks) + 1),
                                  !.remaining = StatusSleepTicks,
                                  !.pc = "sleep"]
    /\ UNCHANGED <<arm, model_type, lerp, lock, workers, dex_hands, created, deleted, device>>

\* the ticks left of asyncio.sleep(1) after one more tick
SleepLeft(s) == s.remaining - 1

\* half a second passes while the handler sleeps; after the last tick the
\* handler is back at the test of its while loop
PushTick ==
    /\ session.rpc = PushRpc /\ session.pc = "sleep"
    /\ session' =
        [session EXCEPT !.remaining = SleepLeft(session),
                        !.late = IF session.cancel_done THEN @ + 1 ELSE @,
                        !.ticks = IF SleepLeft(session) = 0 THEN @ + 1 ELSE @,
                        !.pc = IF SleepLeft(session) = 0 THEN "loop" ELSE "sleep"]
    /\ UNCHANGED <<arm, model_type, lerp, lock, workers, dex_hands, created, deleted, device>>

\* the client drops the call while the handler sleeps: the await raises
\* asyncio.CancelledError, "except asyncio.CancelledError: pass"
PushDisconnect ==
    /\ session.rpc = PushRpc /\ session.pc = "sleep"
    /\ session' = [session EXCEPT !.pc = "done", !.remaining = 0]
    /\ UNCHANGED <<arm, model_type, lerp, lock, workers, dex_hands, created, deleted, device>>

\* the steps of the handler of a command stream
StreamStep ==
    \/ \E request \in Requests(session.rpc) : StreamRead(request)
    \/ StreamApply
    \/ StreamYield

\* the steps of the handler of ReceiveStatus and of its cancel_task
PushStep ==
    \/ \E request \in PushRequests : PushSetup(request)
    \/ \E request \in PushRequests : PushCheckCancel(request)
    \/ PushLoop
    \/ PushGetStatus
    \/ PushYield
    \/ PushTick

\* The registry, two controllers and one streaming call: unary calls create,
\* delete, connect, enable and configure controllers while the handler of
\* the streaming call runs.
NextService ==
    \/ CreateDexHand
    \/ \E id \in Controllers : DeleteDexHand(id)
    \/ \E id \in Controllers : ConnectDexHand(id)
    \/ \E id \in Controllers : EnableDexHand(id)
    \/ \E id \in Controllers : SetupModel(id, [i \in 1..9 |-> Row(i)])
    \/ \E rpc \in StreamRpcs \cup {PushRpc} : OpenSession(rpc)
    \/ StreamStep
    \/ PushStep
    \/ PushDisconnect

SpecService == Init /\ [][NextService]_vars

\* The registry, two controllers and one ReceiveStatus call.  The event loop
\* resumes the handler whenever it can run and the timer of asyncio.sleep
\* expires, so the steps of the handler are taken as soon as they stay
\* possible; what the client sends, and when, is left open.
NextPush ==
    \/ CreateDexHand
    \/ \E id \in Controllers : DeleteDexHand(id)
    \/ \E id \in Controllers : ConnectDexHand(id)
    \/ OpenSession(PushRpc)
    \/ PushStep
    \/ PushDisconnect

SpecPush ==
    /\ Init /\ [][NextPush]_vars
    /\ WF_vars(PushLoop) /\ WF_vars(PushGetStatus) /\ WF_vars(PushTick)

---------------------------------------------------------------------------
(* Properties *)

\* C1: operations on distinct controllers never block one another: while a
\* worker is inside an operation of one controller, a worker waiting to start
\* an operation of another controller can take that controller's lock.
C1_DistinctControllersDoNotBlock ==
    \A w1, w2 \in Workers :
        ( /\ w1 # w2
          /\ Inside(w1)
          /\ pc[w2] = "waiting"
          /\ call[w1].ctl # call[w2].ctl )
        => CanAcquire(w2, call[w2].ctl)

\* C2: operations on the same controller are mutually exclusive: two workers
\* are never inside operations of the same controller, and a worker inside an
\* operation, the polling rounds of enable/disable included, owns that
\* controller's lock from its first round until it returns.
C2_SameControllerExclusive ==
    /\ \A w1, w2 \in Workers :
        (w1 # w2 /\ Inside(w1) /\ Inside(w2)) => call[w1].ctl # call[w2].ctl
    /\ \A w \in Workers :
        Inside(w) => lock[LockOf(call[w].ctl)].owner = w

\* a handshake in a later polling round while the other worker waits to
\* command the same controller
C2_Witness ==
    \E w1, w2 \in Workers :
        /\ w1 # w2
        /\ pc[w1] = "poll" /\ hs[w1].rounds >= 2
        /\ pc[w2] = "waiting"
        /\ call[w2].ctl = call[w1].ctl

\* C3: the enable handshake returns true exactly when some polling round not
\* past the deadline observed all six flags true, it stops polling at that
\* round, and it returns false without raising when no such round occurred.
C3_EnableHandshake ==
    \A w \in Workers :
        call[w].op = "enable" =>
            /\ pc[w] = "poll" => ~hs[w].observed
            /\ (pc[w] = "exit" /\ hs[w].rounds > 0) =>
                /\ out[w].status = "ok"
                /\ hs[w].resp = PyBool(hs[w].observed)
            /\ (hs[w].rounds = 1 /\ hs[w].enable_list = AllTrue) =>
                pc[w] \in {"polled", "exit"}

\* enable has returned false after the deadline, the sixth flag never true
C3_Witness ==
    \E w \in Workers :
        /\ call[w].op = "enable" /\ pc[w] = "exit"
        /\ hs[w].resp = "False"
        /\ hs[w].enable_list = LastFalse
        /\ hs[w].elapsed_time > TimeoutTicks

\* C4: the disable handshake returns true exactly when some polling round not
\* past the deadline observed none of the six flags true (true after a single
\* round when all six are false at the first poll), and false when a flag is
\* still true at every round until the deadline.
C4_DisableHandshake ==
    \A w \in Workers :
        (call[w].op = "disable" /\ pc[w] = "exit" /\ hs[w].rounds > 0) =>
            hs[w].resp = PyBool(hs[w].observed)

\* C5: DexHandController.enable() and disable() return to their caller the
\* boolean outcome of the arm handshake and do not raise on a timeout.
C5_ControllerReturnsOutcome ==
    \A w \in Workers :
        (call[w].op \in {"enable", "disable"} /\ pc[w] = "exit" /\ hs[w].rounds > 0) =>
            /\ out[w].status = "ok"
            /\ out[w].value = hs[w].resp

\* C6: disconnect() takes the controller back to Created, so the connect()
\* that follows it, whatever happened before, leaves the controller Connected
\* and not Enabled: move_to_joint is refused until enable() is called again.
C6_ConnectGivesConnectedNotEnabled ==
    [][\A c \in Controllers :
        (~arm[c].piper /\ ~arm[c].is_connected /\ arm'[c].is_connected)
        => ~arm'[c].is_enabled]_vars

\* the controller is in the state of a controller that was never connected
Created(c) == arm[c] = NewArm

\* worker w takes the step that ends the body of its operation
Completes(w) == pc[w] \in {"in", "nested"} /\ pc'[w] \notin {"in", "nested"}

\* C7: an operation invoked in a lifecycle state earlier than the one it needs
\* fails with an error: every locked operation but connect on a controller
\* that was never connected, and move_to_joint and move_to_pose on a
\* controller that is connected but not enabled.
C7_EarlierStateFails ==
    [][\A w \in Workers :
        ( /\ Completes(w)
          /\ \/ Created(call[w].ctl) /\ call[w].op \in LockedOps \ {"connect"}
             \/ /\ arm[call[w].ctl].is_connected /\ ~arm[call[w].ctl].is_enabled
                /\ call[w].op \in {"move_j", "move_p"} )
        => (pc'[w] = "exit" /\ out'[w].status = "error")]_vars

Ready(c) == arm[c].is_connected /\ arm[c].is_enabled

\* C8 as stated: a list whose length is not 6 fails with InvalidArgument in
\* every lifecycle state, six angles on a controller that is not connected and
\* enabled fail with NotReady, and in both cases no command reaches the arm.
C8_LengthCheckedInEveryState ==
    \A w \in Workers :
        (call[w].op = "move_j" /\ pc[w] = "exit") =>
            /\ Len(call[w].arg) # NJoints =>
                (out[w].err = "InvalidArgument" /\ sent[w] = <<>>)
            /\ (Len(call[w].arg) = NJoints /\ ~Ready(call[w].ctl)) =>
                (out[w].err = "NotReady" /\ sent[w] = <<>>)

\* C8 amended: move_to_joint on a controller that is not both connected and
\* enabled fails with NotReady whatever the length of the list; on a connected
\* and enabled controller a list whose length is not 6 fails with
\* InvalidArgument; in both cases no command reaches the arm driver.
C8_MoveJErrors ==
    \A w \in Workers :
        (call[w].op = "move_j" /\ pc[w] = "exit") =>
            /\ ~Ready(call[w].ctl) =>
                /\ out[w].status = "error" /\ out[w].err = "NotReady"
                /\ sent[w] = <<>>
            /\ (Ready(call[w].ctl) /\ Len(call[w].arg) # NJoints) =>
                /\ out[w].status = "error" /\ out[w].err = "InvalidArgument"
                /\ sent[w] = <<>>

\* move_to_joint with a list of the wrong length was refused on an enabled arm
C8_Witness ==
    \E w \in Workers :
        /\ call[w].op = "move_j" /\ pc[w] = "exit"
        /\ Ready(call[w].ctl)
        /\ Len(call[w].arg) # NJoints
        /\ out[w].err = "InvalidArgument"

\* the mapper of controller c is set up and ready
Configured(c) == lerp[c].exists /\ lerp[c].can_interpolate

InCube(pose) ==
    Len(pose) = 3 /\ \A i \in 1..3 : -PointDen <= pose[i] /\ pose[i] <= PointDen

\* the JointCtrl arguments for the vector v = num/den: each component * factor, rounded
ScaledJoints(v) == [j \in 1..Len(v.num) |-> RoundHalfEven(v.num[j] * factor, v.den)]

\* C9: with a mapper configured on a connected and enabled controller,
\* move_to_pose(point) for a point inside the cube sends the arm a joint
\* command, the one move_to_joint sends for interpolate(point).
C9_PoseForwardsToJoint ==
    \A w \in Workers :
        ( /\ call[w].op = "move_p" /\ pc[w] = "exit"
          /\ Configured(call[w].ctl) /\ Ready(call[w].ctl)
          /\ InCube(call[w].arg) )
        => \E i \in DOMAIN sent[w] :
              /\ sent[w][i].cmd = "JointCtrl"
              /\ sent[w][i].args =
                    ScaledJoints(LerpInterpolate(lerp[call[w].ctl], call[w].arg).value)

\* C10: move_to_pose fails when no mapper has been set up on the controller,
\* and fails with the mapper's OutOfRange error for a point outside every
\* simplex when a mapper is set up; in both cases no command reaches the arm.
C10_PoseErrors ==
    \A w \in Workers :
        (call[w].op = "move_p" /\ pc[w] = "exit") =>
            /\ (~lerp[call[w].ctl].exists /\ model_type[call[w].ctl] = MODEL_TYPE_UNSPECIFIED) =>
                (out[w].status = "error" /\ sent[w] = <<>>)
            /\ ( /\ Configured(call[w].ctl)
                 /\ Len(call[w].arg) = 3 /\ FirstHit(call[w].arg) = 0 ) =>
                (out[w].status = "error" /\ out[w].err = "OutOfRange" /\ sent[w] = <<>>)

---------------------------------------------------------------------------
(* Properties of the streaming calls *)

\* history: the positions in the stream of the requests the handler treated as e
Events(e) == {k \in 1..Len(session.log) : session.log[k].event = e}
\* the positions of the requests answered by a yield
Acked == {session.acks[i] : i \in 1..Len(session.acks)}
IsCommandStream == session.rpc \in StreamRpcs

\* C11: on a command stream, a Setup that names an id missing from the
\* registry is the last request the handler reads: it is not acknowledged,
\* and no request behind it is read, acknowledged or applied.
C11_UnknownSetupEndsStream ==
    IsCommandStream =>
        \A k \in Events("not_found") : k = Len(session.log) /\ k \notin Acked

\* C12: on a command stream, a Packet read before any successful Setup ends
\* the call with an error and without any acknowledgement: the packet is not
\* applied and it is the last request the handler reads.
C12_PacketBeforeSetupEndsStream ==
    IsCommandStream =>
        \A k \in Events("ignored") :
            /\ k = Len(session.log)
            /\ session.pc = "done"
            /\ session.code # None
            /\ session.acks = <<>>

\* the positions of the packets in the stream, and of those the handler has
\* passed to a controller (applied, raised, or still in the call)
Packets == {k \in 1..Len(session.log) : session.log[k].request.kind = "packet_request"}
Applied == Events("applied")
Passed == Events("applied") \cup Events("failed") \cup Events("pending")

\* C13: on a bound command stream every packet is passed to the controller
\* when it is read and acknowledged once before the next request is read:
\* acknowledgements leave in the order of the requests, every packet behind
\* which a request has been read was applied and acknowledged, and between
\* two requests the acknowledged packets are exactly the applied ones.
C13_AppliedAndAckedInOrder ==
    IsCommandStream =>
        /\ \A i, j \in 1..Len(session.acks) : i < j => session.acks[i] < session.acks[j]
        /\ \A k \in Passed : k < Len(session.log) => k \in Applied /\ k \in Acked
        /\ session.pc \in {"read", "done"} => Acked \cap Packets = Applied
        /\ session.pc = "yield" => Acked \cap Packets = Applied \ {Len(session.log)}
        /\ session.pc = "apply" =>
            /\ Events("pending") = {Len(session.log)}
            /\ Acked \cap Packets = Applied

C13_Witness ==
    /\ IsCommandStream /\ session.pc = "read"
    /\ Cardinality(Applied) = 2
    /\ Acked \cap Packets = Applied

\* the handler has read a cancel_request or the end of the stream
Ended == Events("cancel") \cup Events("end") # {}

\* C14: once a command handler has read a Cancel or the end of the stream,
\* it reads no further request, applies no packet and emits no
\* acknowledgement: the session does not change any more.
C14_NothingAfterCancel ==
    [][IsCommandStream /\ Ended => session' = session]_vars

C14_Witness ==
    /\ IsCommandStream /\ session.pc = "done"
    /\ Events("cancel") # {} /\ Applied # {}

\* the controller named by the first successful Setup of the stream
FirstBound ==
    session.log[CHOOSE k \in Events("bound") : \A j \in Events("bound") : k <= j].ctl

\* C15: the controller of a command stream is set once: after the first
\* successful Setup no request changes it, and every packet is applied to
\* the controller that Setup named.
C15_BoundOnce ==
    IsCommandStream /\ Events("bound") # {} =>
        /\ session.dex_hand = FirstBound
        /\ \A k \in Passed : session.log[k].ctl = FirstBound

\* C16: a packet whose move_j / move_p raises ends the command stream with
\* that error: the packet is not acknowledged and no request behind it is
\* read; a ReceiveStatus call whose get_status raises ends with the error
\* and sends no status for that read.
C16_FailureEndsStream ==
    /\ IsCommandStream =>
        \A k \in Events("failed") :
            /\ k = Len(session.log) /\ k \notin Acked
            /\ session.pc = "done" /\ session.code = "UNKNOWN" /\ session.err # None
    /\ session.rpc = PushRpc /\ session.err # None =>
            /\ session.pc = "done" /\ session.code = "UNKNOWN"
            /\ Len(session.acks) = session.ticks

C16_Witness ==
    /\ IsCommandStream /\ Events("failed") # {}
    /\ session.pc = "done" /\ session.acks # <<>>

IsPush == session.rpc = PushRpc

\* C17: a ReceiveStatus call bound by a Setup sends one status per tick: the
\* statuses sent are one more than the sleeps completed while it sleeps and
\* as many as the sleeps completed while it is in the loop; once its
\* cancel_task has read a Cancel or the end of the stream it sends no further
\* status, and it ends.
C17_StatusUntilCancel ==
    /\ [][IsPush /\ session.cancel_done => session'.acks = session.acks]_vars
    /\ [](IsPush =>
            /\ session.pc = "sleep" => Len(session.acks) = session.ticks + 1
            /\ session.pc \in {"loop", "status", "yield"} =>
                    Len(session.acks) = session.ticks)
    /\ (IsPush /\ session.cancel_done) ~> (session.pc = "done")

C17_Witness ==
    /\ IsPush /\ session.pc = "done"
    /\ Events("cancel") # {} /\ session.acks # <<>>

\* C18: a Cancel read while the ReceiveStatus handler sleeps between two
\* ticks ends the sleep: no part of the sleep passes after the cancel.
C18_CancelInterruptsSleep ==
    IsPush => session.late = 0

\* C19: a ReceiveStatus handler owns the controller's lock only while it
\* reads the status snapshot, never while it sleeps between two ticks.
C19_NoLockAcrossSleep ==
    IsPush /\ session.dex_hand # None =>
        /\ session.pc = "sleep" => lock[LockOf(session.dex_hand)].owner # SessionThread
        /\ lock[LockOf(session.dex_hand)].owner = SessionThread => session.pc = "status"

C19_Witness ==
    /\ IsPush /\ session.pc = "sleep" /\ session.ticks > 0
    /\ lock[LockOf(session.dex_hand)] = FreeLock

---------------------------------------------------------------------------
(* Properties of the registry *)

\* C20: after any sequence of registry calls, the ids created are pairwise
\* distinct, ListDexHands returns the created and not deleted controllers in
\* the order of their creation, GetDexHand of a deleted id yields NOT_FOUND
\* and GetDexHand of every other created id returns that controller.
C20_Registry ==
    /\ \A i, j \in 1..Len(created) : i # j => created[i] # created[j]
    /\ ListDexHands = SelectSeq(created, LAMBDA id : id \notin deleted)
    /\ \A id \in deleted : GetDexHand(id).code = "NOT_FOUND"
    /\ \A id \in Keys(created) \ deleted : GetDexHand(id) = [code |-> None, value |-> id]

C20_Witness ==
    /\ Len(created) = 2
    /\ deleted = {created[1]}
    /\ ListDexHands = <<created[2]>>

---------------------------------------------------------------------------
(* The registry calls on the workers of the server's thread pool.  Each    *)
(* action is one access of the handler to the shared dict self.dex_hands;  *)
(* between two accesses of a handler the other worker may run.             *)

RegistryOps == {"CreateDexHand", "GetDexHand", "ListDexHands", "DeleteDexHand"}

\* the locals of a registry handler: request.id, request.config, dex_hand,
\* the list built by ListDexHands and the dict iterator (di_used, di_pos)
RegCall(op, id, config) ==
    [op |-> op, ctl |-> id, arg |-> <<>>, mtype |-> 0, data |-> <<>>,
     config |-> config, dex_hand |-> None, di_used |-> 0, di_pos |-> 0]

\* DexHandService.CreateDexHand on worker w: the constructor, then the one
\* write self.dex_hands[dex_hand.id] = dex_hand; dex_hand.to_proto() follows
CreateDexHandOn(w, config) ==
    /\ pc[w] = "idle"
    /\ LET obj == DexHandController(config)
       IN  IF obj.err # None
           THEN /\ out' = [out EXCEPT ![w] = Raise(obj.err)]
                /\ call' = [call EXCEPT ![w] = RegCall("CreateDexHand", None, config)]
                /\ UNCHANGED <<dex_hands, created, device>>
           ELSE \E id \in uuid4 :
                /\ device' = [device EXCEPT ![id] = obj.self]
                /\ dex_hands' = DictSet(dex_hands, id)
                /\ created' = Append(created, id)
                /\ out' = [out EXCEPT ![w] = Ok(id)]
                /\ call' = [call EXCEPT ![w] = RegCall("CreateDexHand", id, config)]
    /\ pc' = [pc EXCEPT ![w] =
                IF DexHandController(config).err # None THEN "done" ELSE "proto"]
    /\ UNCHANGED <<arm, model_type, lerp, lock, hs, sent, deleted, session>>

\* GetDexHand, line 76: if request.id not in self.dex_hands
GetDexHandTest(w, id) ==
    /\ pc[w] = "idle"
    /\ call' = [call EXCEPT ![w] = RegCall("GetDexHand", id, None)]
    /\ IF ~Registered(id)
       THEN /\ out' = [out EXCEPT ![w] = Raise("NOT_FOUND")]
            /\ pc' = [pc EXCEPT ![w] = "done"]
       ELSE /\ pc' = [pc EXCEPT ![w] = "read"]
            /\ UNCHANGED out
    /\ UNCHANGED <<arm, model_type, lerp, lock, hs, sent, svc>>

\* GetDexHand, line 80: return self.dex_hands[request.id].to_proto()
GetDexHandRead(w) ==
    /\ pc[w] = "read"
    /\ out' = [out EXCEPT ![w] = IF Registered(call[w].ctl)
                                 THEN Ok(call[w].ctl) ELSE Raise("KeyError")]
    /\ pc' = [pc EXCEPT ![w] = IF Registered(call[w].ctl) THEN "proto" ELSE "done"]
    /\ UNCHANGED <<arm, model_type, lerp, lock, call, hs, sent, svc>>

\* DeleteDexHand, lines 86-90: dex_hand = self.dex_hands.get(id, None)
DeleteDexHandGet(w, id) ==
    /\ pc[w] = "idle"
    /\ IF ~Registered(id)
       THEN /\ call' = [call EXCEPT ![w] = RegCall("DeleteDexHand", id, None)]
            /\ out' = [out EXCEPT ![w] = Raise("NOT_FOUND")]
            /\ pc' = [pc EXCEPT ![w] = "done"]
       ELSE /\ call' = [call EXCEPT ![w] =
                           [RegCall("DeleteDexHand", id, None) EXCEPT !.dex_hand = id]]
            /\ pc' = [pc EXCEPT ![w] = "del"]
            /\ UNCHANGED out
    /\ UNCHANGED <<arm, model_type, lerp, lock, hs, sent, svc>>

\* DeleteDexHand, line 92: del self.dex_hands[dex_hand.id]
DeleteDexHandDel(w) ==
    /\ pc[w] = "del"
    /\ IF Registered(call[w].dex_hand)
       THEN /\ dex_hands' = DictDel(dex_hands, call[w].dex_hand)
            /\ deleted' = deleted \cup {call[w].dex_hand}
            /\ out' = [out EXCEPT ![w] = Ok("Empty")]
       ELSE /\ out' = [out EXCEPT ![w] = Raise("KeyError")]
            /\ UNCHANGED <<dex_hands, deleted>>
    /\ pc' = [pc EXCEPT ![w] = "done"]
    /\ UNCHANGED <<arm, model_type, lerp, lock, call, hs, sent, created, session, device>>

\* DexHandController.to_proto() at the end of CreateDexHand and GetDexHand:
\* "with self._lock" around the construction of the message
ToProto(w) ==
    /\ pc[w] = "proto"
    /\ CanAcquire(w, call[w].ctl)
    /\ pc' = [pc EXCEPT ![w] = "done"]
    /\ UNCHANGED <<arm, model_type, lerp, lock, call, hs, out, sent, svc>>

\* ListDexHands, line 57: the iterator over self.dex_hands.values() is made
ListDexHandsIter(w) ==
    /\ pc[w] = "idle"
    /\ call' = [call EXCEPT ![w] =
                   [RegCall("ListDexHands", None, None) EXCEPT !.di_used = Len(dex_hands)]]
    /\ pc' = [pc EXCEPT ![w] = "iter"]
    /\ UNCHANGED <<arm, model_type, lerp, lock, hs, out, sent, svc>>

\* the entries of the dict behind position pos that still hold a key; an
\* entry is never reused, so the entries are the keys ever inserted, in order
EntriesAfter(pos) == { i \in (pos + 1)..Len(created) : Registered(created[i]) }

\* ListDexHands, line 57: one step of the iterator and dex_hand.to_proto()
ListDexHandsNext(w) ==
    /\ pc[w] = "iter"
    /\ IF Len(dex_hands) # call[w].di_used
       THEN /\ out' = [out EXCEPT ![w] = Raise("RuntimeError")]
            /\ pc' = [pc EXCEPT ![w] = "done"]
            /\ UNCHANGED call
       ELSE IF EntriesAfter(call[w].di_pos) = {}
       THEN /\ out' = [out EXCEPT ![w] = Ok("list")]
            /\ pc' = [pc EXCEPT ![w] = "done"]
            /\ UNCHANGED call
       ELSE LET i == CHOOSE j \in EntriesAfter(call[w].di_pos) :
                        \A k \in EntriesAfter(call[w].di_pos) : j <= k
            IN  /\ CanAcquire(w, created[i])
                /\ call' = [call EXCEPT ![w].arg = Append(@, created[i]),
                                        ![w].di_pos = i]
                /\ UNCHANGED <<out, pc>>
    /\ UNCHANGED <<arm, model_type, lerp, lock, hs, sent, svc>>

NextRegistry ==
    \/ \E w \in Workers, config \in Configs : CreateDexHandOn(w, config)
    \/ \E w \in Workers, id \in Controllers : GetDexHandTest(w, id)
    \/ \E w \in Workers : GetDexHandRead(w)
    \/ \E w \in Workers, id \in Controllers : DeleteDexHandGet(w, id)
    \/ \E w \in Workers : DeleteDexHandDel(w)
    \/ \E w \in Workers : ListDexHandsIter(w)
    \/ \E w \in Workers : ListDexHandsNext(w)
    \/ \E w \in Workers : ToProto(w)
    \/ \E w \in Workers : Return(w)

SpecRegistry == Init /\ [][NextRegistry]_vars

InternalErrors == {"KeyError", "RuntimeError"}

\* C21: no registry call ends with an internal error, whatever the other
\* worker does between its accesses to the registry
C21_NoInternalError ==
    \A w \in Workers :
        call[w].op \in RegistryOps => out[w].err \notin InternalErrors

\* the controller behind id has the handles its declared types ask for
Complete(id) ==
    /\ device[id].arm_type = "ARM_TYPE_PIPER" /\ device[id].arm = "PiperArm"
    /\ device[id].hand_type = "HAND_TYPE_INSPIRE" /\ device[id].hand = "InspireHand"

\* worker w has just finished CreateDexHand
JustCreated(w) ==
    pc[w] = "idle" /\ pc'[w] \in {"proto", "done"} /\ call'[w].op = "CreateDexHand"

\* C22: a CreateDexHand whose arm or hand setup fails ends with the error and
\* leaves the registry as it was, a CreateDexHand with any other configuration
\* than a supported arm and a supported hand fails, and every controller in
\* the registry has the arm handle and the hand handle of its declared types
C22_CreateAllOrNothing ==
    [][/\ \A w \in Workers :
            JustCreated(w) =>
                /\ call'[w].config # PiperInspire => out'[w].status = "error"
                /\ out'[w].status = "error" =>
                      /\ dex_hands' = dex_hands
                      /\ \A id \in Keys(dex_hands) : device'[id] = device[id]
       /\ \A id \in Keys(dex_hands') : Complete(id)']_vars

\* a CreateDexHand failed in the hand setup after the arm was set up, next to
\* a controller that is registered
C22_Witness ==
    \E w \in Workers :
        /\ pc[w] = "done" /\ call[w].op = "CreateDexHand"
        /\ call[w].config.arm_type = "ARM_TYPE_PIPER"
        /\ call[w].config.hand_type = "HAND_TYPE_DH"
        /\ out[w].err = "NotImplementedError"
        /\ dex_hands # <<>>

\* the session applies a packet to its controller, or reads its status
SessionActs ==
    \/ /\ IsCommandStream /\ session.pc = "apply"
       /\ Len(session'.log) = Len(session.log)
       /\ session'.log[Len(session.log)].event = "applied"
    \/ /\ IsPush /\ session.pc = "status" /\ session'.pc = "yield"

\* C23: a session applies a packet to its controller, and reads the status of
\* its controller, only while the controller is in the registry
C23_NothingAfterDelete ==
    [][SessionActs => Registered(session.dex_hand)]_vars

---------------------------------------------------------------------------
(* The workspace mapper on its own: one LinearInterpModel, calibrated by    *)
(* set_target and set_targets in any order and asked to interpolate points *)
(* of a grid that reaches one step beyond the cube.                        *)

\* the calibration target of vertex i: a 1 x NJoints array, one per vertex
Target(i) == << Row(i + 1) >>

\* arrays passed to set_target: the target of the vertex and a 2 x N array
TargetInputs(i) == { Target(i), <<Row(i + 1), Row(i + 1)>> }

\* points passed to interpolate, coordinates in units of 1/PointDen
GridPoints ==
    { <<x, y, z>> : x \in -(PointDen + 1)..(PointDen + 1),
                    y \in -(PointDen + 1)..(PointDen + 1),
                    z \in -(PointDen + 1)..(PointDen + 1) }

NoValue == [num |-> <<>>, den |-> 1]

\* the locals of a call of interpolate: the point and the value returned
LerpCall(point, value) ==
    [op |-> "interpolate", ctl |-> None, arg |-> point, mtype |-> 0, data |-> <<>>,
     value |-> value]

\* LinearInterpModel()
LerpNew(c) ==
    /\ ~lerp[c].exists
    /\ lerp' = [lerp EXCEPT ![c] = NewLerp]
    /\ UNCHANGED <<arm, model_type, lock, workers, svc>>

\* set_target(vertex_idx, targets) by the thread that uses the mapper
LerpSetTarget(w, c, vertex_idx, targets) ==
    /\ pc[w] = "idle"
    /\ lerp[c].exists
    /\ lerp' = [lerp EXCEPT ![c] = set_target(@, vertex_idx, targets).model]
    /\ UNCHANGED <<arm, model_type, lock, workers, svc>>

\* set_targets(targets) by the thread that uses the mapper
LerpSetTargets(w, c, rows) ==
    /\ pc[w] = "idle"
    /\ lerp[c].exists
    /\ lerp' = [lerp EXCEPT ![c] = set_targets(@, rows).model]
    /\ UNCHANGED <<arm, model_type, lock, workers, svc>>

\* worker w calls interpolate(point) on the mapper
LerpInterpolateCall(w, c, point, strict) ==
    /\ pc[w] = "idle"
    /\ lerp[c].exists
    /\ LET r == LerpInterpolateOn(lerp[c], point, strict)
       IN  /\ call' = [call EXCEPT ![w] = LerpCall(point, IF r.ok THEN r.value ELSE NoValue)]
           /\ out' = [out EXCEPT ![w] = IF r.ok THEN Ok("value") ELSE Raise(r.err)]
    /\ pc' = [pc EXCEPT ![w] = "done"]
    /\ UNCHANGED <<arm, model_type, lerp, lock, hs, sent, svc>>

Mapper == "A"
Caller == "w1"

\* the vertices that set_target has written
Written(m) == { i \in 0..7 : Len(m.target_group[i].shape) = 2 }

\* the calibration visits the vertices in index order and may write a vertex
\* again; after vertex 7 it also tries the index 8 that no vertex has
VertexInputs(m) == { i \in 0..8 : \A j \in 0..(i - 1) : j \in Written(m) }

\* the numpy behaviours that can differ on the mapper m
StrictInputs(m) ==
    IF \A s \in 1..Len(simplices) : Homogeneous(m, s) THEN {TRUE} ELSE BOOLEAN

NextMapper ==
    \/ LerpNew(Mapper)
    \/ \E i \in VertexInputs(lerp[Mapper]) : \E t \in TargetInputs(i) :
          LerpSetTarget(Caller, Mapper, i, t)
    \/ \E rows \in DataInputs : LerpSetTargets(Caller, Mapper, rows)
    \/ \E point \in GridPoints, strict \in StrictInputs(lerp[Mapper]) :
          LerpInterpolateCall(Caller, Mapper, point, strict)
    \/ Return(Caller)

SpecMapper == Init /\ [][NextMapper]_vars

\* every coordinate of the point is strictly between -1 and 1
Interior(point) ==
    Len(point) = 3 /\ \A i \in 1..3 : -PointDen < point[i] /\ point[i] < PointDen

\* all 8 vertices have been calibrated
Calibrated(m) == m.exists /\ Written(m) = 0..7

\* worker w has called interpolate on the mapper and the call has ended
Interpolated(w) == pc[w] = "done" /\ call[w].op = "interpolate"

\* C24: every grid point strictly inside the cube passes hit_test for at least
\* one of the 5 simplices, and interpolate on the mapper with all 8 vertices
\* calibrated returns a value for it
C24_Cover ==
    /\ \A point \in GridPoints :
          Interior(point) =>
              \E s \in 1..Len(simplices) : hit_test(SimplexVertices(s), point)
    /\ \A w \in Workers :
          Interpolated(w) /\ Calibrated(lerp[Mapper]) /\ Interior(call[w].arg)
              => out[w].status = "ok"

\* the centre of the cube, which only the simplex in the middle contains, has
\* been interpolated on the calibrated mapper
C24_Witness ==
    /\ Interpolated(Caller) /\ Calibrated(lerp[Mapper])
    /\ call[Caller].arg = <<0, 0, 0>>
    /\ FirstHit(call[Caller].arg) = 2
    /\ out[Caller].status = "ok"

\* the position of vertex i as a point of the grid
VertexPoint(i) == [k \in 1..3 |-> PointDen * vertices[i][k]]

\* the value v, numerators over a denominator, is exactly the vector row
Exactly(v, row) ==
    /\ Len(v.num) = Len(row)
    /\ \A j \in 1..Len(row) : v.num[j] = v.den * row[j]

\* C25: with all 8 vertices calibrated with distinct targets, interpolate at
\* the position of vertex i returns exactly the target of vertex i
C25_ExactAtVertices ==
    \A w \in Workers : \A i \in 0..7 :
        Interpolated(w) /\ Calibrated(lerp[Mapper]) /\ call[w].arg = VertexPoint(i)
            => /\ out[w].status = "ok"
               /\ Exactly(call[w].value, Target(i)[1])

\* the targets differ, and vertex 5, which the scan meets as the last vertex
\* of the first simplex, was interpolated to its target
C25_Witness ==
    /\ \A i, j \in 0..7 : i # j => Target(i) # Target(j)
    /\ Interpolated(Caller) /\ Calibrated(lerp[Mapper])
    /\ call[Caller].arg = VertexPoint(5)
    /\ FirstHit(call[Caller].arg) = 1
    /\ Exactly(call[Caller].value, Target(5)[1])

\* the point is in none of the 5 simplices
Outside(point) == FirstHit(point) = 0

\* C26: interpolate fails with NotConfigured for every point while some vertex
\* has no target, and with OutOfRange for every point outside the 5 simplices
\* once all vertices have one
C26_NoValueUnlessReady ==
    \A w \in Workers :
        Interpolated(w) /\ lerp[Mapper].exists =>
            /\ ~Calibrated(lerp[Mapper]) => out[w].err = "NotConfigured"
            /\ Calibrated(lerp[Mapper]) /\ Outside(call[w].arg)
                  => out[w].err = "OutOfRange"

\* C27: can_interpolate is true exactly when every vertex of the simplices has
\* been assigned a target
C27_ReadyIffAllCalibrated ==
    lerp[Mapper].exists =>
        (lerp[Mapper].can_interpolate <=> Written(lerp[Mapper]) = 0..7)

---------------------------------------------------------------------------
(* A client that commands joint angles and then reads the status, against  *)
(* an arm that reports back the joint values it was last commanded.        *)

\* factor = 0.001 of get_joint_states, as the denominator 1/0.001
status_factor == 1000

\* joint lists of the client, angles in units of 1/AngleDen: five angles
\* around zero, on and off the thousandths, and the angle 2; and the lists
\* of JointInputs
ClientJoints ==
    JointInputs \cup
    { [i \in 1..NJoints |-> IF i = NJoints THEN 2 * AngleDen ELSE a + i] : a \in -6..6 }

\* piper.GetArmJointMsgs(): the arguments of the last JointCtrl among the
\* commands cmds the arm has received, zeros when there was none
GetArmJointMsgs(cmds) ==
    LET js == { k \in 1..Len(cmds) : cmds[k].cmd = "JointCtrl" }
    IN  IF js = {} THEN [i \in 1..NJoints |-> 0]
        ELSE cmds[CHOOSE k \in js : \A l \in js : l <= k].args

\* get_joint_states without the factor
get_joint_states_unscaled(raw_data) == [num |-> raw_data, den |-> 1]

\* PiperArm.get_joint_states: joint_k * 0.001, as numerators over status_factor
get_joint_states(raw_data) == [num |-> raw_data, den |-> status_factor]

\* the locals of the client: the angles it commanded and the status it read
ClientCall(op, c, joints, joint_states) ==
    [op |-> op, ctl |-> c, arg |-> joints, mtype |-> 0, data |-> <<>>,
     joint_states |-> joint_states]

\* DexHandController.move_j(joints) from entry to return
ClientMoveJ(w, c, joints) ==
    /\ pc[w] = "idle"
    /\ Registered(c)
    /\ CanAcquire(w, c)
    /\ LET r == move_j(arm[c], joints)
       IN  /\ sent' = [sent EXCEPT ![w] = r.cmds]
           /\ out' = [out EXCEPT ![w] = IF r.err = None THEN Ok(None) ELSE Wrap(r.err)]
    /\ call' = [call EXCEPT ![w] = ClientCall("move_j", c, joints, NoValue)]
    /\ pc' = [pc EXCEPT ![w] = "moved"]
    /\ UNCHANGED <<arm, model_type, lerp, lock, hs, svc>>

\* DexHandController.get_status() from entry to return, after the move
ClientGetStatus(w) ==
    /\ pc[w] = "moved"
    /\ CanAcquire(w, call[w].ctl)
    /\ IF arm[call[w].ctl].piper
       THEN /\ call' = [call EXCEPT ![w] =
                          ClientCall("get_status", call[w].ctl, call[w].arg,
                                     get_joint_states(GetArmJointMsgs(sent[w])))]
            /\ out' = [out EXCEPT ![w] = Ok("status")]
       ELSE /\ call' = [call EXCEPT ![w].op = "get_status"]
            /\ out' = [out EXCEPT ![w] = Wrap("AttributeError")]
    /\ pc' = [pc EXCEPT ![w] = "done"]
    /\ UNCHANGED <<arm, model_type, lerp, lock, hs, sent, svc>>

NextClient ==
    \/ CreateDexHand
    \/ \E id \in Controllers : ConnectDexHand(id)
    \/ \E id \in Controllers : EnableDexHand(id)
    \/ \E c \in Controllers, joints \in ClientJoints : ClientMoveJ(Caller, c, joints)
    \/ ClientGetStatus(Caller)
    \/ Return(Caller)

SpecClient == Init /\ [][NextClient]_vars

Abs(x) == IF x < 0 THEN -x ELSE x

\* the client commanded six angles with success and has read the status
RoundTrip(w) ==
    /\ pc[w] = "done" /\ call[w].op = "get_status"
    /\ out[w].status = "ok"
    /\ Len(call[w].arg) = NJoints /\ sent[w] = joint_ctrl(call[w].arg)

\* C28: after a successful move_j the six angles of get_status differ from
\* the commanded angles by at most half a thousandth, and are equal to them
\* when the commanded angle is a whole number of thousandths
C28_RoundTrip ==
    \A w \in Workers :
        RoundTrip(w) =>
            LET v == call[w].joint_states
            IN  /\ Len(v.num) = NJoints
                /\ \A i \in 1..NJoints :
                      /\ 2 * factor * Abs(v.num[i] * AngleDen - call[w].arg[i] * v.den)
                            <= v.den * AngleDen
                      /\ (call[w].arg[i] * factor) % AngleDen = 0
                            => v.num[i] * AngleDen = call[w].arg[i] * v.den

\* a round trip with an angle that is no whole number of thousandths, where
\* the status differs from the command, and a whole number of thousandths
C28_Witness ==
    /\ RoundTrip(Caller)
    /\ \E i \in 1..NJoints :
          /\ (call[Caller].arg[i] * factor) % AngleDen # 0
          /\ call[Caller].joint_states.num[i] * AngleDen
                # call[Caller].arg[i] * call[Caller].joint_states.den
    /\ \E i \in 1..NJoints :
          /\ (call[Caller].arg[i] * factor) % AngleDen = 0
          /\ call[Caller].arg[i] # 0

\* the rounds a handshake can take: one per sleep that starts before the
\* deadline has passed, the round that sees the deadline passed, and one more
MaxRounds == TimeoutTicks \div SleepTicks + 2

\* the handshake of worker w has not seen the flags it waits for
Unsuccessful(op, h) == ~LoopDone(op, EnableFlag(op, h.enable_list))

\* C29: a handshake takes at most MaxRounds polling rounds whatever the flags
\* are; while it polls, nothing but its own rounds changes it or ends it; and
\* it ends without success only when the deadline has passed
C29_HandshakeTerminates ==
    [][\A w \in Workers :
          /\ pc'[w] \in {"poll", "polled"} => hs'[w].rounds <= MaxRounds
          /\ pc[w] = "poll" =>
                /\ pc'[w] \in {"poll", "polled"}
                /\ call'[w] = call[w]
                /\ hs'[w] # hs[w] => hs'[w].rounds = hs[w].rounds + 1
                /\ pc'[w] = "polled" =>
                      /\ hs'[w].rounds = hs[w].rounds + 1
                      /\ Unsuccessful(call[w].op, hs'[w]) => TimedOut(hs'[w].elapsed_time)]_vars

\* an enable and a disable that polled MaxRounds times and ended on the deadline
C29_Witness ==
    \E w \in Workers :
        /\ pc[w] = "polled"
        /\ hs[w].rounds = MaxRounds
        /\ Unsuccessful(call[w].op, hs[w])
        /\ TimedOut(hs[w].elapsed_time)

\* worker w is leaving a move_j that succeeded
Moved(w) == pc[w] = "exit" /\ call[w].op = "move_j" /\ out[w].status = "ok"

\* C30: a successful move_j has issued a control-mode-set, the joint command
\* with the six angles times 1000 rounded to integers, and the same
\* control-mode-set again, and nothing else; and whenever a worker issues
\* commands it owns the lock of its controller, so that no other worker is
\* inside an operation of that controller or issues a command in that step
C30_ThreeCommands ==
    [][\A w \in Workers :
          /\ Moved(w)' =>
                /\ Len(sent'[w]) = 3
                /\ sent'[w][1] = Cmd("MotionCtrl_2", <<1, 1, speed_ratio, 0>>)
                /\ sent'[w][2].cmd = "JointCtrl"
                /\ Len(sent'[w][2].args) = NJoints
                /\ \A i \in 1..NJoints :
                      /\ 2 * Abs(sent'[w][2].args[i] * AngleDen - call'[w].arg[i] * factor)
                            <= AngleDen
                /\ sent'[w][3] = sent'[w][1]
          /\ (sent'[w] # sent[w] /\ sent'[w] # <<>>) =>
                /\ lock[LockOf(call[w].ctl)].owner = w
                /\ \A v \in Workers \ {w} :
                      /\ sent'[v] = sent[v]
                      /\ Inside(v) => call[v].ctl # call[w].ctl]_vars

\* a move_j has issued its three commands while the other worker waits for
\* the same controller
C30_Witness ==
    \E w \in Workers : \E v \in Workers \ {w} :
        /\ Moved(w) /\ Len(sent[w]) = 3
        /\ pc[v] = "waiting" /\ call[v].ctl = call[w].ctl

\* the handshake of worker w has gone through at least one round
Polled(w) ==
    /\ call[w].op \in {"enable", "disable"}
    /\ pc[w] \in {"poll", "polled"} /\ hs[w].rounds > 0

\* position in sent[w] of the first read of the flags, and of the first command
FirstRead(w) ==
    CHOOSE i \in 1..Len(sent[w]) :
        /\ sent[w][i].cmd = "GetArmLowSpdInfoMsgs"
        /\ \A j \in 1..(i - 1) : sent[w][j].cmd # "GetArmLowSpdInfoMsgs"
FirstCommand(w) ==
    CHOOSE i \in 1..Len(sent[w]) :
        /\ sent[w][i].cmd \in {"EnableArm", "DisableArm"}
        /\ \A j \in 1..(i - 1) : sent[w][j].cmd \notin {"EnableArm", "DisableArm"}

\* C31: in a polling round the enable or disable command goes to the driver
\* before the six flags are read, so the flags a round decides on were read
\* after that round's command: the first command precedes the first read, and
\* the driver call that ends a round is a read
C31_CommandBeforeFlags ==
    \A w \in Workers :
        Polled(w) =>
            /\ FirstCommand(w) < FirstRead(w)
            /\ sent[w][Len(sent[w])].cmd = "GetArmLowSpdInfoMsgs"

---------------------------------------------------------------------------
(* The mapper under calibration: set_target on any vertex in any order,    *)
(* with a second target for the first vertices, and interpolate on the     *)
(* poses of move_p.                                                        *)

\* a second calibration target of vertex i
Retarget(i) == << Row(i + 2) >>

\* vertices that are calibrated a second time with another target
Recalibrated == 0..1

\* arrays passed to set_target(i, .)
CalibInputs(i) ==
    TargetInputs(i) \cup (IF i \in Recalibrated THEN {Retarget(i)} ELSE {})

NextCalib ==
    \/ LerpNew(Mapper)
    \/ \E i \in 0..8 : \E t \in CalibInputs(i) : LerpSetTarget(Caller, Mapper, i, t)
    \/ \E rows \in DataInputs : LerpSetTargets(Caller, Mapper, rows)
    \/ \E point \in PoseInputs, strict \in BOOLEAN :
          LerpInterpolateCall(Caller, Mapper, point, strict)
    \/ Return(Caller)

SpecCalib == Init /\ [][NextCalib]_vars

\* the vertices whose target differs between two mappers
Retargeted(m, n) == { i \in 0..7 : n.target_group[i] # m.target_group[i] }

\* C32: a step changes the target of at most one vertex, the new target is
\* the array of a calibration call on that vertex, and a step in which the
\* caller runs interpolate (with its hit_test) changes nothing of the mapper;
\* the vertices' coordinates and the simplices are fixed at construction
C32_CalibrateFrame ==
    [][lerp[Mapper].exists =>
          /\ Cardinality(Retargeted(lerp[Mapper], lerp'[Mapper])) <= 1
          /\ \A i \in Retargeted(lerp[Mapper], lerp'[Mapper]) :
                /\ <<lerp'[Mapper].target_group[i].flat>> \in CalibInputs(i)
                /\ pc' = pc /\ call' = call
          /\ (pc[Caller] = "idle" /\ pc'[Caller] = "done") => lerp' = lerp]_vars

\* vertex 0 holds its second target next to calibrated and uncalibrated
\* vertices, and an interpolation has run on this mapper
C32_Witness ==
    /\ Interpolated(Caller) /\ out[Caller].status = "ok"
    /\ <<lerp[Mapper].target_group[0].flat>> = Retarget(0)
    /\ <<lerp[Mapper].target_group[5].flat>> = Target(5)
    /\ 1 \notin Written(lerp[Mapper])

\* worker w has finished setup_model with the LERP model type
SetUp(w) ==
    pc[w] = "done" /\ call[w].op = "setup_model" /\ call[w].mtype = MODEL_TYPE_LERP

\* C33: set_targets accepts the arrays with 8 rows and rejects every other
\* array, and after a rejection the mapper is not ready
C33_EightRowsAccepted ==
    \A w \in Workers :
        SetUp(w) =>
            /\ Len(call[w].data) = 8 <=> out[w].status = "ok"
            /\ out[w].status = "error" => ~lerp[call[w].ctl].can_interpolate

---------------------------------------------------------------------------
(* One worker of the pool inside connect and enable of registered          *)
(* controllers, the other worker in the registry calls.                    *)

DeviceWorker == "w1"
RegistryWorker == "w2"

NextBusy ==
    \/ CreateDexHandOn(RegistryWorker, PiperInspire)
    \/ \E id \in Controllers : GetDexHandTest(RegistryWorker, id)
    \/ GetDexHandRead(RegistryWorker)
    \/ \E id \in Controllers : DeleteDexHandGet(RegistryWorker, id)
    \/ DeleteDexHandDel(RegistryWorker)
    \/ ListDexHandsIter(RegistryWorker)
    \/ ListDexHandsNext(RegistryWorker)
    \/ ToProto(RegistryWorker)
    \/ Return(RegistryWorker)
    \/ \E op \in {"connect", "enable"}, c \in Keys(dex_hands) :
          Call(DeviceWorker, op, c, <<>>)
    \/ Acquire(DeviceWorker)
    \/ Connect(DeviceWorker)
    \/ HandshakeBegin(DeviceWorker)
    \/ PollRound(DeviceWorker, {0})
    \/ HandshakeReturn(DeviceWorker)
    \/ Release(DeviceWorker)

SpecBusy == Init /\ [][NextBusy]_vars

\* the next step of the registry call of worker w is a to_proto: the one at
\* the end of CreateDexHand and GetDexHand, or the one of the next controller
\* in the list of ListDexHands
AtToProto(w) ==
    \/ pc[w] = "proto"
    \/ /\ pc[w] = "iter" /\ Len(dex_hands) = call[w].di_used
       /\ EntriesAfter(call[w].di_pos) # {}

\* C34: a registry call never waits for a device operation: whenever its next
\* step needs the lock of a controller, the lock is free
C34_RegistryNeverWaits ==
    \A w \in Workers :
        (call[w].op \in RegistryOps /\ AtToProto(w))
            => lock[LockOf(call[w].ctl)].owner \in {NoThread, w}

---------------------------------------------------------------------------
(* Enabled only after a successful enable *)

\* worker w has completed a handshake and is about to leave the operation
Handshaken(w) ==
    call[w].op \in {"enable", "disable"} /\ pc[w] = "exit" /\ hs[w].rounds > 0

\* C35: the arm is treated as enabled only if the most recent completed
\* handshake was an enable() that succeeded: when a handshake has returned,
\* the arm is marked enabled only if it was an enable that returned true, so
\* after an enable() that timed out move_to_joint fails with NotReady.
C35_EnabledOnlyAfterSuccess ==
    \A w \in Workers :
        (Handshaken(w) /\ arm[call[w].ctl].is_enabled)
        => (call[w].op = "enable" /\ hs[w].resp = "True")

---------------------------------------------------------------------------
(* The calibration array reaches the vertices *)

\* interpolate at the position of vertex i on mapper m returns exactly row
InterpolatesTo(m, i, row) ==
    /\ LerpInterpolate(m, VertexPoint(i)).ok
    /\ Exactly(LerpInterpolate(m, VertexPoint(i)).value, row)

\* C36: after setup_model with the LERP type and an array T of 8 rows the
\* call has succeeded, the mapper is ready, and interpolate at the position of
\* vertex i returns row i of T, for each of the 8 vertices.
C36_SetupCalibrates ==
    \A w \in Workers :
        (SetUp(w) /\ Len(call[w].data) = 8) =>
            /\ out[w].status = "ok"
            /\ lerp[call[w].ctl].can_interpolate
            /\ \A i \in 0..7 :
                  InterpolatesTo(lerp[call[w].ctl], i, call[w].data[i + 1])

---------------------------------------------------------------------------
(* A failing operation changes nothing *)

\* worker w takes the step that ends setup_model by raising
SetupRaises(w) == pc[w] = "setup" /\ pc'[w] = "done" /\ out'[w].status = "error"

\* worker w enters setup_model with a model type for which the call raises
\* whatever the array is: IK, or a type that is neither LERP nor IK
SetupOfNoModel(w) ==
    pc[w] = "idle" /\ pc'[w] = "setup" /\ call'[w].mtype # MODEL_TYPE_LERP

\* worker w takes the step of connect() in which the driver connection fails
ConnectFails(w) ==
    pc[w] = "in" /\ call[w].op = "connect" /\ out'[w].status = "error"

\* C37: a failing controller operation leaves the state as it was: a
\* setup_model that raises leaves the model type and the mapper of every
\* controller unchanged, and a connect() that fails on a controller that was
\* never connected leaves it in the state of a never connected controller.
C37_FailureChangesNothing ==
    [][\A w \in Workers :
        /\ SetupRaises(w) => lerp' = lerp
        /\ SetupOfNoModel(w) => model_type' = model_type
        /\ (ConnectFails(w) /\ Created(call[w].ctl)) => Created(call[w].ctl)']_vars

---------------------------------------------------------------------------
(* The lock is released on every exit path *)

\* Two worker threads of the pool calling every locked operation of the same
\* controller.
NextShared ==
    \E w \in Workers :
        \/ \E op \in LockedOps : Call(w, op, "A", ArgOf(op))
        \/ Run(w, {0})

\* the worker threads run whenever they can: a thread that is not blocked in
\* the acquire of the lock takes its next step
SpecShared ==
    Init /\ [][NextShared]_vars /\ \A w \in Workers : WF_vars(Run(w, {0}))

\* the number of "with self._lock" blocks worker w is inside
Held(w) == IF pc[w] = "nested" THEN 2 ELSE IF Inside(w) THEN 1 ELSE 0

\* the lock is owned exactly by a worker inside an operation, as many times
\* as the worker has entered "with self._lock"
LockAccounting ==
    /\ \A l \in Locks :
          /\ lock[l].owner = NoThread <=> lock[l].count = 0
          /\ lock[l].owner # NoThread =>
                /\ lock[l].owner \in Workers
                /\ lock[l].count = Held(lock[l].owner)
                /\ LockOf(call[lock[l].owner].ctl) = l
    /\ \A w \in Workers :
          Held(w) > 0 => lock[LockOf(call[w].ctl)].owner = w

\* a worker waits for the lock only while another worker is inside an
\* operation, and that worker has a step to take
NoDeadlock ==
    \A w \in Workers :
        pc[w] = "waiting" =>
            \/ ENABLED Acquire(w)
            \/ \E o \in Workers \ {w} : Inside(o) /\ ENABLED Run(o, {0})

\* C38: the controller lock is released on every exit path of every
\* operation, the paths that raise and the nested acquire of move_p included:
\* the lock is held only by workers inside an operation, no worker waits for a
\* lock that nobody will release, every operation that holds the lock ends,
\* and the lock becomes available to every worker that waits for it.
C38_LockReleased ==
    /\ [](LockAccounting /\ NoDeadlock)
    /\ \A w \in Workers : Inside(w) ~> ~Inside(w)
    /\ \A w \in Workers :
          pc[w] = "waiting" ~> (pc[w] # "waiting" \/ CanAcquire(w, call[w].ctl))

\* a move_p has raised inside the nested "with self._lock" and has left it,
\* still holding the lock once, while the other worker waits for the lock
C38_Witness ==
    \E w, o \in Workers :
        /\ call[w].op = "move_p" /\ pc[w] = "exit" /\ out[w].status = "error"
        /\ lock[LockOf(call[w].ctl)] = [owner |-> w, count |-> 1]
        /\ pc[o] = "waiting"

---------------------------------------------------------------------------
(* Points shared by several simplices *)

\* the simplices that pass hit_test for the point
Hits(point) == { s \in 1..Len(simplices) : hit_test(SimplexVertices(s), point) }

\* the output of interpolating the point with simplex s of mapper m
InterpolateWith(m, s, point) ==
    interpolate(SimplexVertices(s), SimplexTargets(m, s), point)

\* two values, numerators over a denominator, are the same vector
SameValue(u, v) ==
    /\ Len(u.num) = Len(v.num)
    /\ \A j \in 1..Len(u.num) : u.num[j] * v.den = v.num[j] * u.den

\* C39: on the mapper with all 8 vertices calibrated, for a point that passes
\* hit_test for two or more simplices, interpolating with any of them gives
\* the same output vector, the one interpolate returns.
C39_SharedPointsAgree ==
    \A w \in Workers :
        (Interpolated(w) /\ Calibrated(lerp[Mapper]) /\ out[w].status = "ok") =>
            \A s, t \in Hits(call[w].arg) :
                /\ SameValue(InterpolateWith(lerp[Mapper], s, call[w].arg),
                             InterpolateWith(lerp[Mapper], t, call[w].arg))
                /\ SameValue(InterpolateWith(lerp[Mapper], s, call[w].arg),
                             call[w].value)

\* a point inside the face that the first simplex shares with the simplex in
\* the middle of the cube, on no edge of it, has been interpolated on the
\* calibrated mapper
C39_Witness ==
    /\ Interpolated(Caller) /\ Calibrated(lerp[Mapper])
    /\ out[Caller].status = "ok"
    /\ Hits(call[Caller].arg) = {1, 2}
    /\ \A i \in 0..7 : ~SameValue(call[Caller].value, [num |-> Target(i)[1], den |-> 1])

---------------------------------------------------------------------------
(* The output stays within the targets of the chosen simplex *)

\* the weights interpolate(point) uses: those of the first simplex that
\* passes hit_test
WeightsUsed(point) == to_barycentric(SimplexVertices(FirstHit(point)), point)

\* component j of the targets of the four vertices of simplex s
Component(m, s, j) == { SimplexTargets(m, s)[k][j] : k \in 1..4 }

\* the value v has every component between the smallest and the largest of
\* that component over the targets of the vertices of simplex s
Within(m, s, v) ==
    \A j \in 1..Len(v.num) :
        /\ \E lo \in Component(m, s, j) :
              (\A x \in Component(m, s, j) : lo <= x) /\ lo * v.den <= v.num[j]
        /\ \E hi \in Component(m, s, j) :
              (\A x \in Component(m, s, j) : x <= hi) /\ v.num[j] <= hi * v.den

\* C40: for every point interpolate accepts, the four barycentric weights
\* used are each between 0 and 1 and sum to 1, and every component of the
\* returned vector lies between the minimum and the maximum of that component
\* over the targets of the four vertices of the chosen simplex.
C40_ConvexCombination ==
    \A w \in Workers :
        (Interpolated(w) /\ out[w].status = "ok") =>
            LET l == WeightsUsed(call[w].arg)
            IN  /\ l.den > 0
                /\ \A i \in 1..4 : 0 <= l.num[i] /\ l.num[i] <= l.den
                /\ l.num[1] + l.num[2] + l.num[3] + l.num[4] = l.den
                /\ Within(lerp[Mapper], FirstHit(call[w].arg), call[w].value)

\* a point that has a positive weight on each of the four vertices of its
\* simplex has been interpolated on the calibrated mapper, and every
\* component of the value differs from the four targets
C40_Witness ==
    /\ Interpolated(Caller) /\ Calibrated(lerp[Mapper])
    /\ out[Caller].status = "ok"
    /\ \A i \in 1..4 : 0 < WeightsUsed(call[Caller].arg).num[i]
    /\ \A j \in 1..NJoints :
          \A x \in Component(lerp[Mapper], FirstHit(call[Caller].arg), j) :
              call[Caller].value.num[j] # x * call[Caller].value.den

====
